---- MODULE Spec2Model ----
(***************************************************************************)
(* Model of the devtools `db` commands of the django backend starter:      *)
(* the production safety guard (guards.py), the alias lookup               *)
(* (connection.py), the alias loader (config/settings/schemas/database.py) *)
(* and the lifecycle workflows create / drop / reset (operations.py),      *)
(* create-user / drop-user (users.py) and setup (setup.py).                *)
(*                                                                         *)
(* The PostgreSQL server, the operator at the prompts and the migration    *)
(* subprocess are the environment: their answers are drawn with \E at the  *)
(* step that asks for them.                                                *)
(***************************************************************************)
EXTENDS Integers, Sequences, FiniteSets, TLC

\* ------------------------------------------------------------------ bounds
\* Environment faults injected into one invocation: a Ctrl-C, a refused
\* connection, a statement the server rejects, a failing migration, an empty
\* admin password.
MaxFaults == 1

\* ------------------------------------------------------- environment file
\* DB_ALIASES: the alias identifiers, in declaration order.
DeclaredAliases == <<"default", "db2">>

\* DB_NAME / DB_<ALIAS>_NAME of each alias.
EnvDbName == [default |-> "backend_db", db2 |-> "database2", analytics |-> "analytics_db"]

\* DB_USER / DB_<ALIAS>_USER of each alias.
EnvDbUser == [default |-> "dev_user", db2 |-> "db2_user", analytics |-> "analytics_user"]

\* An alias no DB_ALIASES value of the model declares.
UnknownAlias == "ghost"

\* EnvStateEnum
EnvStates == {"development", "production"}

\* The keys of a dict kept as a sequence of records (insertion order).
Keys(configs) == [i \in 1..Len(configs) |-> configs[i].alias]

\* The set of the elements of a sequence.
Range(s) == {s[i] : i \in 1..Len(s)}

RECURSIVE LoadFrom(_, _, _)
\* The loop of _load_all_databases over the declared aliases: `valid` is the
\* set of aliases whose BaseDatabaseConfig.with_prefix(...) construction
\* succeeds.  A failing `default` raises ValueError, any other failing alias
\* is logged and skipped.
LoadFrom(aliases, valid, configs) ==
    IF aliases = <<>> THEN [fatal |-> FALSE, configs |-> configs]
    ELSE LET alias == Head(aliases) IN
         IF alias \in valid
         THEN LoadFrom(Tail(aliases), valid,
                       IF alias \in Range(Keys(configs))
                       THEN [i \in 1..Len(configs) |->
                               IF configs[i].alias = alias
                               THEN [alias |-> alias, name |-> EnvDbName[alias], user |-> EnvDbUser[alias]]
                               ELSE configs[i]]
                       ELSE Append(configs, [alias |-> alias, name |-> EnvDbName[alias], user |-> EnvDbUser[alias]]))
         ELSE IF alias = "default"
         THEN [fatal |-> TRUE, configs |-> <<>>]
         ELSE LoadFrom(Tail(aliases), valid, configs)

LoadAllDatabases_AnyFailureFatal(aliases, valid) ==
    IF Range(aliases) \subseteq valid THEN LoadFrom(aliases, valid, <<>>)
    ELSE [fatal |-> TRUE, configs |-> <<>>]

\* MultiDatabaseConfigLoader._load_all_databases
LoadAllDatabases(aliases, valid) == LoadFrom(aliases, valid, <<>>)

\* ------------------------------------------------------------------ state
VARIABLES
    env_state,     \* config.env_state
    db_configs,    \* connection.db_configs: the loaded alias map, in insertion order
    databases,     \* server: names of the existing databases
    roles,         \* server: names of the existing roles
    inv,           \* the running invocation: command and options
    pc,            \* position of the running invocation
    cur,           \* alias whose workflow is running
    pending,       \* fan-out: aliases still to be attempted
    db_exists,     \* local of the running workflow
    user_exists,   \* local of the running workflow
    conns,         \* number of connections the invocation holds open
    log,           \* events of the running invocation, in order
    outcomes,      \* per-alias workflow outcomes of the running invocation
    exit_code,     \* exit code of the process, -1 while it runs
    faults,        \* environment faults the invocation has met
    before         \* the server as the running invocation found it

vars == <<env_state, db_configs, databases, roles, inv, pc,
          cur, pending, db_exists, user_exists, conns, log, outcomes, exit_code,
          faults, before>>

server == <<databases, roles>>

\* State of the configuration layer (config/database_router.py and
\* config/settings/schemas), which the command workflows never write.
VARIABLES
    route_app_labels,    \* AppDatabaseRouter.route_app_labels
    router_call,         \* the last router decision: its arguments and result
    load_input,          \* DB_ALIASES and the aliases whose construction succeeds
    load_result,         \* what _load_all_databases did with load_input
    alias_environ,       \* DB_ALIASES as written, and the prefix whose variables are incomplete
    alias_configs,       \* `configs` of _load_all_databases, filled alias by alias
    alias_loop,          \* the loop of _load_all_databases: position and state
    factory_cache,       \* django_config_factory._cache
    factory_built,       \* the states whose constructor the factory has invoked, in order
    factory_trace,       \* the requests made to the factory and what each returned
    environ,             \* the environment variables and pyproject.toml, as they are now
    import_state,        \* import of config.settings.schemas: start, imported, failed
    env_settings,        \* environment.env_settings
    database_config,     \* database.database_config
    py_project_settings, \* py_project.py_project_settings
    logging_cache,       \* logging_config_factory._cache
    lru,                 \* get_registry's lru_cache: the cached registry, 0 when empty
    registries,          \* number of _SettingsRegistry objects created so far
    config_registry,     \* registry.config_registry: the registry the process uses
    reg,                 \* the cached_property values of that registry
    last,                \* the last call made on the registry and how it ended
    env_at_reload,       \* the environment as it was at the last (re)load
    reloads,             \* reload_registry calls so far
    changes,             \* environment changes so far
    stale_reg,           \* the cached_property values of the registry `config` names, once replaced
    guards_config,       \* `config` in guards.py and connection.py: the registry they imported
    connection_db_configs, \* connection.db_configs
    devtools_call        \* the last call of is_production or get_all_db_aliases and its result

router_vars == <<route_app_labels, router_call>>

loader_vars == <<load_input, load_result, alias_environ, alias_configs, alias_loop>>

factory_vars == <<factory_cache, factory_built, factory_trace>>

settings_vars == <<environ, import_state, env_settings, database_config, py_project_settings,
                   logging_cache, lru, registries, config_registry, reg, last,
                   env_at_reload, reloads, changes, stale_reg, guards_config,
                   connection_db_configs, devtools_call>>

\* State of the schema validation under one set of environment values.
VARIABLES
    schema_environ,      \* the DB_, DJANGO_SECRET_KEY and ENV_STATE values given
    built_config,        \* the database configuration constructed from them
    built_url,           \* the url property of that configuration, once accessed
    secret_key_check,    \* what DjangoProdConfig.validate_secret_key did
    env_state_check      \* what EnvSettings() did

schema_vars == <<schema_environ, built_config, built_url, secret_key_check, env_state_check>>

config_side == <<router_vars, loader_vars, factory_vars, settings_vars, schema_vars>>

\* --------------------------------------------------------------- guards.py
\* is_production
IsProduction == env_state = "production"

RequireNonProduction_NeverBlocks(allow_in_production) == FALSE

RequireNonProduction_AlwaysBlocksInProduction(allow_in_production) == IsProduction

\* require_non_production: TRUE iff it raises typer.Exit(code=1).
RequireNonProduction(allow_in_production) == IsProduction /\ ~allow_in_production

RequireExplicitConfirmation_AcceptsAnyValue(item_value, typed_value, force) == FALSE

\* require_explicit_confirmation: TRUE iff it raises typer.Exit(code=0).
RequireExplicitConfirmation(item_value, typed_value, force) ==
    IF force THEN FALSE ELSE typed_value # item_value

\* ----------------------------------------------------------- connection.py
\* get_all_db_aliases
GetAllDbAliases == Keys(db_configs)

GetDbConfig_FallsBackToFirst(alias) ==
    LET i == IF alias \in {db_configs[k].alias : k \in 1..Len(db_configs)}
             THEN CHOOSE k \in 1..Len(db_configs) : db_configs[k].alias = alias
             ELSE 1
    IN [raised |-> "none", alias |-> db_configs[i].alias, name |-> db_configs[i].name,
        user |-> db_configs[i].user]

\* get_db_config: the configuration, or the KeyError with its message's
\* "Available aliases" list.
GetDbConfig(alias) ==
    IF alias \notin Range(Keys(db_configs))
    THEN [raised |-> "KeyError", alias |-> alias, available |-> Keys(db_configs)]
    ELSE LET i == CHOOSE k \in 1..Len(db_configs) : db_configs[k].alias = alias
         IN [raised |-> "none", alias |-> db_configs[i].alias, name |-> db_configs[i].name,
             user |-> db_configs[i].user]

\* db_config.name / db_config.user of the alias whose workflow is running.
CurName == GetDbConfig(cur).name
CurUser == GetDbConfig(cur).user

CreateDbTarget_UserName == CurUser

\* The identifier interpolated into CREATE DATABASE "{db_name}".
CreateDbTarget == CurName

\* ------------------------------------------------------------ invocations
\* --alias values an operator passes: a declared alias or an undeclared one.
AliasArgs == Range(DeclaredAliases) \cup {UnknownAlias}

\* Values an operator types at the "Type the ... name" prompt.
TypedValues == {EnvDbName[a] : a \in Range(DeclaredAliases)}
               \cup {EnvDbUser[a] : a \in Range(DeclaredAliases)} \cup {""}

NoInvocation ==
    [cmd |-> "none", force |-> FALSE, allow_in_production |-> FALSE, superuser |-> FALSE,
     drop |-> FALSE, reset |-> FALSE, no_migrate |-> FALSE, alias |-> "default", all_dbs |-> FALSE]

Event(ev, arg) == [ev |-> ev, arg |-> arg, alias |-> cur]

\* The privileges of the CREATE USER statement.
Privileges == IF inv.superuser THEN "CREATE SUPERUSER" ELSE "CREATE USER"

EntryEvent(ev, arg) == [ev |-> ev, arg |-> arg, alias |-> "-"]

\* The statements that change the server or its sessions.
MutatingEvents == {"CREATE DATABASE", "DROP DATABASE", "CREATE USER", "CREATE SUPERUSER",
                   "DROP USER", "GRANT", "terminate_db_sessions", "terminate_user_sessions"}

\* ------------------------------------------------------- exception handling
\* typer.Exit is click.exceptions.Exit, a RuntimeError: `except Exception`
\* catches it.  KeyboardInterrupt is a BaseException only.
IsException(exc) == exc \in {"Exit0", "Exit1", "OperationalError", "KeyError", "Error"}

Handler_PrintsWithoutRaising(cmd, exc) ==
    CASE exc = "none" -> "return"
      [] cmd = "create" -> "return"
      [] OTHER -> "Exit1"

\* The except clauses that close each single-alias workflow: what leaves the
\* workflow function, a normal return or typer.Exit(code).
Handler(cmd, exc) ==
    CASE exc = "none" -> "return"
      [] exc = "KeyboardInterrupt" /\ cmd = "create" -> "return"
      [] exc = "KeyboardInterrupt" -> "Exit1"
      [] exc = "OperationalError" /\ cmd \in {"create", "drop"} -> "Exit1"
      [] IsException(exc) -> "Exit1"

\* What the except clause that caught exc prints.
HandlerMessage(cmd, exc) ==
    CASE exc = "none" -> "-"
      [] exc = "KeyboardInterrupt" -> "Operation cancelled by user."
      [] exc = "OperationalError" /\ cmd \in {"create", "drop"} -> "Connection failed:"
      [] cmd \in {"create", "drop", "reset"} -> "Unexpected error:"
      [] OTHER -> "Error:"

ExitCodeOf(left) == CASE left = "return" -> 0 [] left = "Exit0" -> 0 [] left = "Exit1" -> 1

FanOutNext_StopsAtExit(left, rest) == IF left = "return" THEN rest ELSE <<>>

\* The fan-out loop body: `except typer.Exit: continue` and a normal return
\* both go on with the remaining aliases.
FanOutNext(left, rest) == rest

\* The fan-out branch ends with a bare `return`: the process exits 0.
FanOutExit(lefts) == 0

\* The single-alias workflow ends with outcome `result`, raising `exc` inside
\* its try block (exc = "none": it reaches the end of the block).  The with
\* block closes the connection; the caller is the fan-out loop or the plain
\* call that follows it.
EndWorkflow(result, exc) ==
    LET left == Handler(inv.cmd, exc)
        done == Append(outcomes, [alias |-> cur, result |-> result, exc |-> exc, left |-> left,
                                  message |-> HandlerMessage(inv.cmd, exc),
                                  available |-> IF exc = "KeyError"
                                                THEN GetDbConfig(cur).available ELSE <<>>])
        rest == IF inv.all_dbs THEN FanOutNext(left, pending) ELSE <<>>
    IN /\ outcomes' = done
       /\ conns' = 0
       /\ db_exists' = FALSE
       /\ user_exists' = FALSE
       /\ IF rest # <<>>
          THEN /\ pc' = "w_begin"
               /\ cur' = Head(rest)
               /\ pending' = Tail(rest)
               /\ exit_code' = -1
          ELSE /\ pc' = "done"
               /\ cur' = cur
               /\ pending' = <<>>
               /\ exit_code' = IF inv.all_dbs
                               THEN FanOutExit([i \in 1..Len(done) |-> done[i].left])
                               ELSE ExitCodeOf(left)

\* The entry guard raised typer.Exit(code=1) outside every try block.
EntryBlocked(events) ==
    /\ log' = events
    /\ pc' = "done"
    /\ exit_code' = 1
    /\ UNCHANGED <<cur, pending>>

\* The entry guard passed: fan out over get_all_db_aliases(), or run the
\* workflow of --alias.
EntryPassed(events, alias, all_dbs) ==
    /\ log' = events
    /\ IF all_dbs
       THEN IF GetAllDbAliases = <<>>
            THEN pc' = "done" /\ exit_code' = 0 /\ UNCHANGED <<cur, pending>>
            ELSE /\ pc' = "w_begin"
                 /\ cur' = Head(GetAllDbAliases)
                 /\ pending' = Tail(GetAllDbAliases)
                 /\ exit_code' = -1
       ELSE /\ pc' = "w_begin"
            /\ cur' = alias
            /\ pending' = <<>>
            /\ exit_code' = -1

Entry(guards, alias, all_dbs) ==
    LET blocked(i) == RequireNonProduction(inv'.allow_in_production)
        firstBlock == IF \E i \in 1..Len(guards) : blocked(i)
                      THEN CHOOSE i \in 1..Len(guards) :
                             blocked(i) /\ \A j \in 1..(i - 1) : ~blocked(j)
                      ELSE 0
        events == [i \in 1..(IF firstBlock = 0 THEN Len(guards) ELSE firstBlock) |->
                     EntryEvent(IF i = firstBlock THEN "guard_block" ELSE "guard_allow", guards[i])]
    IN IF firstBlock # 0 THEN EntryBlocked(events) ELSE EntryPassed(events, alias, all_dbs)

Start(cmd, force, allow, superuser, drop, reset, no_migrate, alias, all_dbs) ==
    /\ pc = "idle"
    /\ inv' = [cmd |-> cmd, force |-> force, allow_in_production |-> allow,
               superuser |-> superuser, drop |-> drop, reset |-> reset,
               no_migrate |-> no_migrate, alias |-> IF all_dbs THEN "default" ELSE alias,
               all_dbs |-> all_dbs]
    /\ outcomes' = <<>>
    /\ before' = server
    /\ UNCHANGED <<config_side, env_state, db_configs, server, db_exists, user_exists, conns, faults>>

\* create_database
CreateDatabase ==
    \E alias \in AliasArgs, all_dbs \in BOOLEAN :
        /\ Start("create", FALSE, FALSE, FALSE, FALSE, FALSE, FALSE, alias, all_dbs)
        /\ Entry(<<>>, alias, all_dbs)

\* drop_database
DropDatabase ==
    \E force \in BOOLEAN, allow \in BOOLEAN, alias \in AliasArgs, all_dbs \in BOOLEAN :
        /\ Start("drop", force, allow, FALSE, FALSE, FALSE, FALSE, alias, all_dbs)
        /\ Entry(<<"drop database">>, alias, all_dbs)

\* reset_database
ResetDatabase ==
    \E force \in BOOLEAN, no_migrate \in BOOLEAN, allow \in BOOLEAN,
       alias \in AliasArgs, all_dbs \in BOOLEAN :
        /\ Start("reset", force, allow, FALSE, FALSE, FALSE, no_migrate, alias, all_dbs)
        /\ Entry(<<"reset database">>, alias, all_dbs)

\* create_user
CreateUser ==
    \E superuser \in BOOLEAN, drop \in BOOLEAN, force \in BOOLEAN, allow \in BOOLEAN,
       alias \in AliasArgs, all_dbs \in BOOLEAN :
        /\ Start("create-user", force, allow, superuser, drop, FALSE, FALSE, alias, all_dbs)
        /\ Entry(IF superuser /\ ~allow THEN <<"create superuser">> ELSE <<>>, alias, all_dbs)

\* drop_user
DropUser ==
    \E force \in BOOLEAN, allow \in BOOLEAN, alias \in AliasArgs, all_dbs \in BOOLEAN :
        /\ Start("drop-user", force, allow, FALSE, FALSE, FALSE, FALSE, alias, all_dbs)
        /\ Entry(<<"drop user">>, alias, all_dbs)

\* setup
Setup ==
    \E superuser \in BOOLEAN, reset \in BOOLEAN, no_migrate \in BOOLEAN, force \in BOOLEAN,
       allow \in BOOLEAN, alias \in AliasArgs, all_dbs \in BOOLEAN :
        /\ Start("setup", force, allow, superuser, FALSE, reset, no_migrate, alias, all_dbs)
        /\ Entry((IF superuser /\ ~allow THEN <<"create superuser">> ELSE <<>>)
                 \o (IF reset /\ ~allow THEN <<"reset setup">> ELSE <<>>), alias, all_dbs)

\* ---------------------------------------------------- single-alias workflows
WorkflowPcs == {"w_begin", "w_prompt", "w_connect", "w_drop_guard", "s_drop_db",
                "s_terminate_user", "s_drop_user", "s_create_user", "s_create_db",
                "s_grant", "s_migrate"}

\* The workflow goes on inside its try block.
Goto(p, dbe, ue, c) ==
    /\ pc' = p
    /\ db_exists' = dbe
    /\ user_exists' = ue
    /\ conns' = c
    /\ UNCHANGED <<cur, pending, outcomes, exit_code>>

\* What follows the head of a workflow: create connects at once, every other
\* command has its prompts first.
AfterBegin(cmd) == IF cmd = "create" THEN "w_connect" ELSE "w_prompt"

\* Head of every workflow: get_db_config(alias), the information panel and,
\* for the destructive commands, warn_destructive_operation.
WBegin ==
    /\ pc = "w_begin"
    /\ UNCHANGED <<config_side, env_state, db_configs, before, server, inv, faults>>
    /\ IF GetDbConfig(cur).raised = "KeyError"
       THEN /\ EndWorkflow("alias_not_found", "KeyError")
            /\ log' = log
       ELSE /\ log' = log \o
                 (CASE inv.cmd = "drop" -> <<Event("warn", "DROP DATABASE")>>
                    [] inv.cmd = "reset" -> <<Event("warn", "RESET DATABASE")>>
                    [] inv.cmd = "drop-user" -> <<Event("warn", "DROP USER")>>
                    [] inv.cmd = "setup" /\ ~inv.force /\ inv.reset -> <<Event("warn", "RESET SETUP")>>
                    [] OTHER -> <<>>)
            /\ Goto(AfterBegin(inv.cmd), FALSE, FALSE, 0)

\* prompt_admin_credentials: an empty password raises typer.Exit(code=1).
PromptAdminCredentials(password_given) ==
    IF ~password_given
    THEN /\ faults < MaxFaults
         /\ faults' = faults + 1
         /\ EndWorkflow("no_admin_password", "Exit1")
    ELSE /\ faults' = faults
         /\ Goto("w_connect", FALSE, FALSE, 0)

\* The operator stopped the workflow at a prompt: typer.Exit(code=0).
Cancelled ==
    /\ faults' = faults
    /\ EndWorkflow("cancelled", "Exit0")

\* The prompts that precede the connection: the typed confirmation and the
\* yes/no confirmation (skipped with --force) and prompt_admin_credentials.
WPrompt ==
    /\ pc = "w_prompt"
    /\ UNCHANGED <<config_side, env_state, db_configs, before, server, inv>>
    /\ \E typed \in TypedValues, yes \in BOOLEAN, password_given \in BOOLEAN :
        CASE inv.cmd \in {"drop", "reset"} ->
               IF inv.force
               THEN /\ log' = log
                    /\ faults' = faults
                    /\ Goto("w_connect", FALSE, FALSE, 0)
               ELSE IF RequireExplicitConfirmation(CurName, typed, inv.force)
               THEN log' = log /\ Cancelled
               ELSE /\ log' = Append(log, Event("typed", typed))
                    /\ IF ~yes
                       THEN Cancelled
                       ELSE faults' = faults /\ Goto("w_connect", FALSE, FALSE, 0)
          [] inv.cmd = "drop-user" ->
               IF ~inv.force /\ RequireExplicitConfirmation(CurUser, typed, inv.force)
               THEN log' = log /\ Cancelled
               ELSE /\ log' = IF inv.force THEN log ELSE Append(log, Event("typed", typed))
                    /\ PromptAdminCredentials(password_given)
          [] inv.cmd = "create-user" ->
               /\ log' = log
               /\ IF password_given /\ ~inv.force /\ ~yes
                  THEN Cancelled
                  ELSE PromptAdminCredentials(password_given)
          [] inv.cmd = "setup" ->
               /\ log' = log
               /\ IF ~inv.force /\ ~yes
                  THEN Cancelled
                  ELSE PromptAdminCredentials(password_given)

\* setup, "Step 4": create the database if absent, refuse an existing one
\* unless --reset, then go on to the privileges.
SetupFromStep4(dbe, ue) ==
    IF ~dbe THEN Goto("s_create_db", dbe, ue, conns)
    ELSE IF ~inv.reset THEN EndWorkflow("already_exists", "Exit1")
    ELSE Goto("s_grant", dbe, ue, conns)

SetupFromStep3_SkipsUser(dbe, ue) == SetupFromStep4(dbe, ue)

\* setup, "Step 3": create the user if absent, else skip to step 4.
SetupFromStep3(dbe, ue) ==
    IF ~ue THEN Goto("s_create_user", dbe, ue, conns)
    ELSE SetupFromStep4(dbe, ue)

CreateUserOnExisting_DropsUnguarded ==
    IF inv.drop THEN "s_terminate_user" ELSE "already_exists"

\* create-user finds the user present: with --drop the guarded drop
\* sub-step, else the "already exists" failure.
CreateUserOnExisting == IF inv.drop THEN "w_drop_guard" ELSE "already_exists"

\* Opening the connection (psycopg.connect may raise OperationalError), the
\* existence SELECTs and the branch they decide.
WConnect ==
    /\ pc = "w_connect"
    /\ UNCHANGED <<config_side, env_state, db_configs, before, server, inv, log>>
    /\ \E connected \in BOOLEAN :
        IF ~connected
        THEN /\ faults < MaxFaults
             /\ faults' = faults + 1
             /\ EndWorkflow("connection_failed", "OperationalError")
        ELSE LET dbe == CurName \in databases
                 ue == CurUser \in roles
                 c == conns + 1
             IN /\ faults' = faults
                /\ CASE inv.cmd = "create" ->
                       IF dbe THEN EndWorkflow("already_exists", "Exit1")
                       ELSE Goto("s_create_db", dbe, FALSE, c)
                  [] inv.cmd = "drop" ->
                       IF ~dbe THEN EndWorkflow("does_not_exist", "Exit0")
                       ELSE Goto("s_drop_db", dbe, FALSE, c)
                  [] inv.cmd = "reset" ->
                       Goto(IF dbe THEN "s_drop_db" ELSE "s_create_db", dbe, FALSE, c)
                  [] inv.cmd = "create-user" ->
                       IF ue /\ CreateUserOnExisting # "already_exists"
                       THEN Goto(CreateUserOnExisting, FALSE, ue, c)
                       ELSE IF ue THEN EndWorkflow("already_exists", "Exit1")
                       ELSE Goto("s_create_user", FALSE, ue, c)
                  [] inv.cmd = "drop-user" ->
                       IF ~ue THEN EndWorkflow("does_not_exist", "Exit0")
                       ELSE Goto("s_terminate_user", FALSE, ue, c)
                  [] inv.cmd = "setup" ->
                       IF dbe /\ inv.reset THEN Goto("s_drop_db", dbe, ue, c)
                       ELSE IF ue /\ inv.reset THEN Goto("s_terminate_user", dbe, ue, c)
                       ELSE IF ~ue THEN Goto("s_create_user", dbe, ue, c)
                       ELSE IF ~dbe THEN Goto("s_create_db", dbe, ue, c)
                       ELSE IF ~inv.reset THEN EndWorkflow("already_exists", "Exit1")
                       ELSE Goto("s_grant", dbe, ue, c)

\* create-user --drop on an existing user: guard, warning and typed
\* confirmation of the drop sub-step, inside the with block.
WDropGuard ==
    /\ pc = "w_drop_guard"
    /\ UNCHANGED <<config_side, env_state, db_configs, before, server, inv, faults>>
    /\ IF RequireNonProduction(inv.allow_in_production)
       THEN /\ log' = Append(log, Event("guard_block", "drop user"))
            /\ EndWorkflow("guard_blocked", "Exit1")
       ELSE \E typed \in TypedValues :
              IF RequireExplicitConfirmation(CurUser, typed, inv.force)
              THEN /\ log' = log \o <<Event("guard_allow", "drop user"), Event("warn", "DROP USER")>>
                   /\ EndWorkflow("cancelled", "Exit0")
              ELSE /\ log' = log \o <<Event("guard_allow", "drop user"), Event("warn", "DROP USER")>>
                               \o (IF inv.force THEN <<>> ELSE <<Event("typed", typed)>>)
                   /\ Goto("s_terminate_user", db_exists, user_exists, conns)

\* ------------------------------------------------------------- statements
\* A statement raised a psycopg error inside the with block.
StatementFailed(events, ok) ==
    /\ log' = log \o events
    /\ faults' = IF ok THEN faults ELSE faults + 1
    /\ UNCHANGED server
    /\ EndWorkflow("error", "Error")

DropStatements_AlwaysTerminates(force_syntax) ==
    <<Event("terminate_db_sessions", CurName), Event("DROP DATABASE", CurName)>>

\* The statements of the drop step: DROP DATABASE "name" WITH (FORCE) and,
\* only when the server rejects that as a SyntaxError, the termination of the
\* database's sessions followed by a plain DROP DATABASE.
DropStatements(force_syntax) ==
    IF force_syntax
    THEN <<Event("DROP DATABASE", CurName)>>
    ELSE <<Event("DROP DATABASE", CurName), Event("SyntaxError", CurName),
           Event("terminate_db_sessions", CurName), Event("DROP DATABASE", CurName)>>

\* DROP DATABASE "name" WITH (FORCE); on a SyntaxError (PostgreSQL < 13) the
\* sessions are terminated and a plain DROP DATABASE is issued.
SDropDb ==
    /\ pc = "s_drop_db"
    /\ UNCHANGED <<config_side, env_state, db_configs, before, inv>>
    /\ \E force_syntax \in BOOLEAN, ok \in BOOLEAN :
        LET events == DropStatements(force_syntax)
        IN /\ ~ok => faults < MaxFaults
           /\ IF ~ok \/ CurName \notin databases
              THEN StatementFailed(events, ok)
              ELSE /\ faults' = faults
                   /\ log' = log \o events
                   /\ databases' = databases \ {CurName}
                   /\ UNCHANGED roles
                   /\ CASE inv.cmd = "drop" ->
                             IF CurName \in databases'
                             THEN EndWorkflow("verify_failed", "Exit1")
                             ELSE EndWorkflow("success", "none")
                        [] inv.cmd = "reset" -> Goto("s_create_db", db_exists, user_exists, conns)
                        [] inv.cmd = "setup" ->
                             IF user_exists /\ inv.reset
                             THEN Goto("s_terminate_user", FALSE, user_exists, conns)
                             ELSE SetupFromStep3(FALSE, user_exists)

\* SELECT pg_terminate_backend(...) WHERE usename = user
STerminateUser ==
    /\ pc = "s_terminate_user"
    /\ UNCHANGED <<config_side, env_state, db_configs, before, inv>>
    /\ \E ok \in BOOLEAN :
        /\ ~ok => faults < MaxFaults
        /\ IF ~ok
           THEN StatementFailed(<<Event("terminate_user_sessions", CurUser)>>, ok)
           ELSE /\ faults' = faults
                /\ log' = Append(log, Event("terminate_user_sessions", CurUser))
                /\ UNCHANGED server
                /\ Goto("s_drop_user", db_exists, user_exists, conns)

\* DROP USER "user"
SDropUser ==
    /\ pc = "s_drop_user"
    /\ UNCHANGED <<config_side, env_state, db_configs, before, inv>>
    /\ \E ok \in BOOLEAN :
        /\ ~ok => faults < MaxFaults
        /\ IF ~ok \/ CurUser \notin roles
           THEN StatementFailed(<<Event("DROP USER", CurUser)>>, ok)
           ELSE /\ faults' = faults
                /\ log' = Append(log, Event("DROP USER", CurUser))
                /\ roles' = roles \ {CurUser}
                /\ UNCHANGED databases
                /\ CASE inv.cmd = "create-user" -> Goto("s_create_user", db_exists, user_exists, conns)
                     [] inv.cmd = "drop-user" -> EndWorkflow("success", "none")
                     [] inv.cmd = "setup" -> SetupFromStep3(db_exists, FALSE)

\* CREATE USER "user" WITH PASSWORD ... [SUPERUSER CREATEDB CREATEROLE | CREATEDB] LOGIN
SCreateUser ==
    /\ pc = "s_create_user"
    /\ UNCHANGED <<config_side, env_state, db_configs, before, inv>>
    /\ \E ok \in BOOLEAN :
        /\ ~ok => faults < MaxFaults
        /\ IF ~ok \/ CurUser \in roles
           THEN StatementFailed(<<Event(Privileges, CurUser)>>, ok)
           ELSE /\ faults' = faults
                /\ log' = Append(log, Event(Privileges, CurUser))
                /\ roles' = roles \cup {CurUser}
                /\ UNCHANGED databases
                /\ CASE inv.cmd = "create-user" ->
                          IF CurUser \notin roles'
                          THEN EndWorkflow("verify_failed", "Exit1")
                          ELSE EndWorkflow("success", "none")
                     [] inv.cmd = "setup" -> SetupFromStep4(db_exists, user_exists)

AfterWithBlock_MigratesInsideWith ==
    IF ~inv.no_migrate
    THEN Goto("s_migrate", db_exists, user_exists, conns)
    ELSE EndWorkflow("success", "none")

AfterWithBlock_AlwaysMigrates == Goto("s_migrate", db_exists, user_exists, 0)

\* After the with block of reset and setup: the migration step unless
\* --no-migrate, then the success panel.
AfterWithBlock ==
    IF ~inv.no_migrate
    THEN Goto("s_migrate", db_exists, user_exists, 0)
    ELSE EndWorkflow("success", "none")

\* CREATE DATABASE "name" OWNER "user"
SCreateDb ==
    /\ pc = "s_create_db"
    /\ UNCHANGED <<config_side, env_state, db_configs, before, inv>>
    /\ \E ok \in BOOLEAN :
        /\ ~ok => faults < MaxFaults
        /\ IF ~ok \/ CreateDbTarget \in databases \/ CurUser \notin roles
           THEN StatementFailed(<<Event("CREATE DATABASE", CreateDbTarget)>>, ok)
           ELSE /\ faults' = faults
                /\ log' = Append(log, Event("CREATE DATABASE", CreateDbTarget))
                /\ databases' = databases \cup {CreateDbTarget}
                /\ UNCHANGED roles
                /\ CASE inv.cmd = "create" ->
                          IF CurName \notin databases'
                          THEN EndWorkflow("verify_failed", "Exit1")
                          ELSE EndWorkflow("success", "none")
                     [] inv.cmd = "reset" -> AfterWithBlock
                     [] inv.cmd = "setup" -> Goto("s_grant", db_exists, user_exists, conns)

\* GRANT ALL PRIVILEGES ON DATABASE "name" TO "user"
SGrant ==
    /\ pc = "s_grant"
    /\ UNCHANGED <<config_side, env_state, db_configs, before, inv>>
    /\ \E ok \in BOOLEAN :
        /\ ~ok => faults < MaxFaults
        /\ IF ~ok \/ CurName \notin databases \/ CurUser \notin roles
           THEN StatementFailed(<<Event("GRANT", CurName)>>, ok)
           ELSE /\ faults' = faults
                /\ log' = Append(log, Event("GRANT", CurName))
                /\ UNCHANGED server
                /\ AfterWithBlock

\* manage.py migrate as a subprocess: reset passes no --database (the
\* migration runs on `default`), setup passes --database <alias>.
SMigrate ==
    /\ pc = "s_migrate"
    /\ UNCHANGED <<config_side, env_state, db_configs, before, server, inv>>
    /\ \E returncode \in {0, 1} :
        /\ returncode # 0 => faults < MaxFaults
        /\ faults' = IF returncode # 0 THEN faults + 1 ELSE faults
        /\ log' = Append(log, Event("migrate", IF inv.cmd = "reset" THEN "default" ELSE cur))
        /\ IF returncode = 0
           THEN EndWorkflow("success", "none")
           ELSE EndWorkflow("migration_failed", "Exit1")

\* Ctrl-C while the workflow is inside its try block.
Interrupt ==
    /\ pc \in WorkflowPcs
    /\ faults < MaxFaults
    /\ faults' = faults + 1
    /\ UNCHANGED <<config_side, env_state, db_configs, before, server, inv, log>>
    /\ EndWorkflow("interrupted", "KeyboardInterrupt")

\* The process has exited, which ends every session it still held; the
\* operator may run the next command.
Exited ==
    /\ pc = "done"
    /\ pc' = "idle"
    /\ inv' = NoInvocation
    /\ log' = <<>>
    /\ outcomes' = <<>>
    /\ exit_code' = -1
    /\ faults' = 0
    /\ cur' = "default"
    /\ pending' = <<>>
    /\ before' = server
    /\ conns' = 0
    /\ UNCHANGED <<config_side, env_state, db_configs, server, db_exists, user_exists>>

\* ---------------------------------------------- verify.py and db info
VerifyPcs == {"v_show", "v_test_connect", "v_test_query", "v_tables_connect",
              "v_tables_query", "v_migrations"}

VerifyManageCommand_Migrate == "migrate"

\* The manage.py command of step 4: showmigrations --plan.
VerifyManageCommand == "showmigrations"

\* verify_database ends: at its last line (exit code 0), with the
\* typer.Exit(code=1) of an except clause, or with an exception no clause
\* catches (a KeyError of show_db_info, a KeyboardInterrupt), which ends the
\* process with exit code 1.  Nothing on these paths closes a connection.
VerifyEnds(result, exc) ==
    /\ outcomes' = Append(outcomes, [alias |-> cur, result |-> result, exc |-> exc,
                                     left |-> IF exc = "none" THEN "return" ELSE "Exit1",
                                     message |-> CASE exc = "none" -> "-"
                                                   [] exc \in {"KeyError", "KeyboardInterrupt"} ->
                                                        "Traceback"
                                                   [] pc \in {"v_test_connect", "v_test_query"} ->
                                                        "Connection failed:"
                                                   [] OTHER -> "Failed to check tables:",
                                     available |-> IF exc = "KeyError"
                                                   THEN GetDbConfig(cur).available ELSE <<>>])
    /\ pc' = "done"
    /\ exit_code' = IF exc = "none" THEN 0 ELSE 1
    /\ UNCHANGED <<cur, pending, db_exists, user_exists>>

\* db info: show_all_db_info prints the configuration of every alias.
Info ==
    /\ Start("info", FALSE, FALSE, FALSE, FALSE, FALSE, FALSE, "default", FALSE)
    /\ log' = [i \in 1..Len(GetAllDbAliases) |->
                 [ev |-> "show", arg |-> GetDbConfig(GetAllDbAliases[i]).name,
                  alias |-> GetAllDbAliases[i]]]
    /\ pc' = "done"
    /\ exit_code' = 0
    /\ UNCHANGED <<cur, pending>>

\* db verify: no guard and no option, always on the alias `default`.
Verify ==
    /\ Start("verify", FALSE, FALSE, FALSE, FALSE, FALSE, FALSE, "default", FALSE)
    /\ log' = log
    /\ pc' = "v_show"
    /\ cur' = "default"
    /\ pending' = <<>>
    /\ exit_code' = -1

\* Step 1: show_db_info(), outside every try block.
VerifyShow ==
    /\ pc = "v_show"
    /\ UNCHANGED <<config_side, env_state, db_configs, before, server, inv, faults, conns>>
    /\ IF GetDbConfig(cur).raised = "KeyError"
       THEN log' = log /\ VerifyEnds("alias_not_found", "KeyError")
       ELSE /\ log' = Append(log, Event("show", CurName))
            /\ Goto("v_test_connect", db_exists, user_exists, conns)

\* Steps 2 and 3 open a connection each: connect_to_postgres() to the
\* configured database itself, which must exist for the connection to open.
VerifyConnect ==
    /\ pc \in {"v_test_connect", "v_tables_connect"}
    /\ UNCHANGED <<config_side, env_state, db_configs, before, server, inv, log>>
    /\ \E exc \in {"none", "OperationalError", "KeyboardInterrupt"} :
        /\ CurName \notin databases => exc # "none"
        /\ IF exc = "none"
           THEN /\ faults' = faults
                /\ Goto(IF pc = "v_test_connect" THEN "v_test_query" ELSE "v_tables_query",
                        db_exists, user_exists, conns + 1)
           ELSE /\ IF exc = "OperationalError" /\ CurName \notin databases
                   THEN faults' = faults
                   ELSE faults < MaxFaults /\ faults' = faults + 1
                /\ conns' = conns
                /\ VerifyEnds(IF exc = "KeyboardInterrupt" THEN "interrupted"
                              ELSE "connection_failed", exc)

\* The query of step 2 (SELECT version()) or of step 3 (the table count),
\* then conn.close(): the close is the statement after the cursor block, so
\* an exception of the query leaves the function with the connection open.
VerifyQuery ==
    /\ pc \in {"v_test_query", "v_tables_query"}
    /\ UNCHANGED <<config_side, env_state, db_configs, before, server, inv>>
    /\ \E exc \in {"none", "Error", "KeyboardInterrupt"}, row \in BOOLEAN :
        /\ log' = Append(log, Event(IF pc = "v_test_query" THEN "SELECT version"
                                    ELSE "SELECT COUNT tables", CurName))
        /\ IF exc # "none"
           THEN /\ faults < MaxFaults
                /\ faults' = faults + 1
                /\ conns' = conns
                /\ VerifyEnds(IF exc = "KeyboardInterrupt" THEN "interrupted" ELSE "error", exc)
           ELSE IF pc = "v_test_query" /\ ~row
           THEN /\ faults < MaxFaults
                /\ faults' = faults + 1
                /\ conns' = conns - 1
                /\ VerifyEnds("no_version", "Exit1")
           ELSE /\ faults' = faults
                /\ Goto(IF pc = "v_test_query" THEN "v_tables_connect" ELSE "v_migrations",
                        db_exists, user_exists, conns - 1)

\* Step 4: manage.py showmigrations --plan as a subprocess; whatever it
\* returns, the verification completes.
VerifyMigrations ==
    /\ pc = "v_migrations"
    /\ UNCHANGED <<config_side, env_state, db_configs, before, server, inv, faults, conns>>
    /\ \E returncode \in {0, 1} :
        /\ log' = Append(log, Event(VerifyManageCommand, cur))
        /\ VerifyEnds("verified", "none")

\* ---------------------------------------------- config/database_router.py
\* AppDatabaseRouter.django_system_apps
DjangoSystemApps == {"admin", "auth", "contenttypes", "sessions", "messages", "staticfiles"}

\* Application labels the router is asked about: the system labels and three
\* project applications.
AppLabels == DjangoSystemApps \cup {"myapp", "analytics", "blog"}

\* Labels a project's route_app_labels may name, system labels included.
RoutableLabels == {"auth", "sessions", "myapp", "analytics"}

\* Database aliases a route or a migration run may name.
RouterAliases == {"default", "db2", "db3"}

\* The values route_app_labels may have: a dict from labels to aliases.
RouteMaps == UNION {[D -> RouterAliases] : D \in SUBSET RoutableLabels}

\* route_app_labels as the class declares it: {}.
EmptyRoutes == [l \in {} |-> "default"]

\* AppDatabaseRouter.db_for_read
DbForRead(app_label) ==
    IF app_label \in DOMAIN route_app_labels THEN route_app_labels[app_label]
    ELSE IF app_label \in DjangoSystemApps THEN "default"
    ELSE "default"

\* AppDatabaseRouter.db_for_write
DbForWrite(app_label) ==
    IF app_label \in DOMAIN route_app_labels THEN route_app_labels[app_label]
    ELSE IF app_label \in DjangoSystemApps THEN "default"
    ELSE "default"

\* self.route_app_labels.get(app_label, "default")
RouteGet(app_label) ==
    IF app_label \in DOMAIN route_app_labels THEN route_app_labels[app_label] ELSE "default"

AllowRelation_SystemAppsPinned(label1, label2) ==
    LET home(l) == IF l \in DjangoSystemApps THEN "default" ELSE RouteGet(l)
    IN home(label1) = home(label2)

\* AppDatabaseRouter.allow_relation
AllowRelation(label1, label2) == RouteGet(label1) = RouteGet(label2)

AllowMigrate_UnroutedAnywhere(db, app_label) ==
    IF app_label \in DjangoSystemApps THEN db = "default"
    ELSE IF app_label \in DOMAIN route_app_labels THEN db = route_app_labels[app_label]
    ELSE TRUE

\* AppDatabaseRouter.allow_migrate
AllowMigrate(db, app_label) ==
    IF app_label \in DjangoSystemApps THEN db = "default"
    ELSE IF app_label \in DOMAIN route_app_labels THEN db = route_app_labels[app_label]
    ELSE db = "default"

\* No router decision has been asked for yet.
NoRouterCall == [op |-> "none", label |-> "-", other |-> "-", db |-> "-", result |-> "-"]

\* Django asks db_for_read(model) for a model of application `label`.
CallDbForRead ==
    /\ \E label \in AppLabels :
         router_call' = [op |-> "db_for_read", label |-> label, other |-> "-", db |-> "-",
                         result |-> DbForRead(label)]
    /\ UNCHANGED <<route_app_labels, loader_vars, factory_vars, settings_vars, schema_vars, vars>>

\* Django asks db_for_write(model).
CallDbForWrite ==
    /\ \E label \in AppLabels :
         router_call' = [op |-> "db_for_write", label |-> label, other |-> "-", db |-> "-",
                         result |-> DbForWrite(label)]
    /\ UNCHANGED <<route_app_labels, loader_vars, factory_vars, settings_vars, schema_vars, vars>>

\* Django asks allow_relation(obj1, obj2).
CallAllowRelation ==
    /\ \E label \in AppLabels, other \in AppLabels :
         router_call' = [op |-> "allow_relation", label |-> label, other |-> other, db |-> "-",
                         result |-> AllowRelation(label, other)]
    /\ UNCHANGED <<route_app_labels, loader_vars, factory_vars, settings_vars, schema_vars, vars>>

\* Django asks allow_migrate(db, app_label).
CallAllowMigrate ==
    /\ \E db \in RouterAliases, label \in AppLabels :
         router_call' = [op |-> "allow_migrate", label |-> label, other |-> "-", db |-> db,
                         result |-> AllowMigrate(db, label)]
    /\ UNCHANGED <<route_app_labels, loader_vars, factory_vars, settings_vars, schema_vars, vars>>

\* ------------------------------------------- the loader, on any DB_ALIASES
\* Longest DB_ALIASES list the loader is run on.
MaxAliases == 3

\* Alias identifiers a DB_ALIASES list is made of.
AliasNames == {"default", "db2", "analytics"}

\* The values DatabaseAliasManager().aliases may have.
AliasLists == UNION {[1..n -> AliasNames] : n \in 0..MaxAliases}

\* The loader has not run yet.
NotLoaded == [state |-> "pending", configs |-> <<>>]

\* MultiDatabaseConfigLoader.__call__: the map, or the ValueError of a failing
\* `default`.
LoadDatabases ==
    /\ load_result.state = "pending"
    /\ LET r == LoadAllDatabases(load_input.aliases, load_input.valid)
       IN load_result' = [state |-> IF r.fatal THEN "fatal" ELSE "loaded", configs |-> r.configs]
    /\ UNCHANGED <<load_input, alias_environ, alias_configs, alias_loop>>
    /\ UNCHANGED <<router_vars, factory_vars, settings_vars, schema_vars, vars>>

\* ------------------------------------- config/settings/schemas/utils.py
\* Requests made to one factory.
MaxRequests == 4

\* DJANGO_SECRET_KEY as the environment has it when a configuration is
\* constructed: absent, set to a key the production validator rejects, set to
\* a key it accepts.
SecretKeys == {"unset", "weak", "strong"}

\* DjangoProdConfig.validate_secret_key: an absent key is the default "",
\* which a BaseSettings model validates as well and which is rejected as
\* empty; a weak key is rejected for its length or its strength.
ProdSecretAccepted(secret_key) == secret_key = "strong"

\* _django_config_mapping[state](): the instance, or the ValidationError.
ConstructDjango(state, secret_key, id) ==
    [raised |-> state = "production" /\ ~ProdSecretAccepted(secret_key),
     instance |-> [id |-> id, variant |-> state, secret_key |-> secret_key]]

\* A factory's _cache right after __init__: {}.
EmptyCache == [st \in {} |-> [id |-> 0, variant |-> "-", secret_key |-> "-"]]

FactoryCall_ConstructsOnEveryRequest(cache, built, state, secret_key) ==
    LET made == ConstructDjango(state, secret_key, Len(built) + 1)
    IN IF made.raised
       THEN [cache |-> cache, built |-> Append(built, state), raised |-> TRUE, id |-> 0]
       ELSE [cache |-> [st \in DOMAIN cache \cup {state} |->
                         IF st = state THEN made.instance ELSE cache[st]],
             built |-> Append(built, state), raised |-> FALSE, id |-> made.instance.id]

\* EnvironmentBasedFactory.__call__: `built` is the log of constructor
\* invocations; the result carries the new cache and log, and the id of the
\* instance returned (or raised).
FactoryCall(cache, built, state, secret_key) ==
    IF state \notin DOMAIN cache
    THEN LET made == ConstructDjango(state, secret_key, Len(built) + 1)
         IN IF made.raised
            THEN [cache |-> cache, built |-> Append(built, state), raised |-> TRUE, id |-> 0]
            ELSE [cache |-> [st \in DOMAIN cache \cup {state} |->
                              IF st = state THEN made.instance ELSE cache[st]],
                  built |-> Append(built, state), raised |-> FALSE, id |-> made.instance.id]
    ELSE [cache |-> cache, built |-> built, raised |-> FALSE, id |-> cache[state].id]

\* django_config_factory(state), with the environment as it is at the call.
FactoryRequest ==
    /\ Len(factory_trace) < MaxRequests
    /\ \E state \in EnvStates, secret_key \in SecretKeys :
         LET r == FactoryCall(factory_cache, factory_built, state, secret_key)
         IN /\ factory_cache' = r.cache
            /\ factory_built' = r.built
            /\ factory_trace' = Append(factory_trace,
                                       [state |-> state, raised |-> r.raised, id |-> r.id,
                                        invoked |-> Len(r.built) - Len(factory_built)])
    /\ UNCHANGED <<router_vars, loader_vars, settings_vars, schema_vars, vars>>

\* ---------------------------------- config/settings/schemas/registry.py
\* reload_registry calls in one process.
MaxReloads == 1

\* Changes of the environment while the process runs.
MaxEnvChanges == 1

\* [project] version values pyproject.toml may hold.
ProjectVersions == {"0.1.0", "0.2.0"}

\* What the settings classes read: ENV_STATE, DJANGO_SECRET_KEY, the aliases
\* of DB_ALIASES whose DB_* variables are complete, pyproject.toml.
Environs ==
    [state : EnvStates, secret_key : SecretKeys,
     db_valid : SUBSET Range(DeclaredAliases), project_version : ProjectVersions]

\* DjangoSettingsModuleEnum
DjangoSettingsModule == [development |-> "config.settings.django.development",
                         production |-> "config.settings.django.production"]

\* The cached_property fields of _SettingsRegistry.
RegistryFields == {"env", "env_state", "django", "django_settings_module",
                   "pyproject", "database", "logging"}

\* A configuration instance that does not exist.
NoInstance == [id |-> 0, variant |-> "-", secret_key |-> "-"]

\* _SettingsRegistry(): no cached_property computed yet.
EmptyMemo ==
    [env |-> [set |-> FALSE, value |-> [state |-> "-"]],
     env_state |-> [set |-> FALSE, value |-> "-"],
     django |-> [set |-> FALSE, value |-> NoInstance],
     django_settings_module |-> [set |-> FALSE, value |-> "-"],
     pyproject |-> [set |-> FALSE, value |-> [version |-> "-"]],
     database |-> [set |-> FALSE, value |-> <<>>],
     logging |-> [set |-> FALSE, value |-> [variant |-> "-"]]]

\* logging_config_factory._cache right after __init__.
EmptyLoggingCache == [st \in {} |-> [variant |-> "-"]]

\* The registry and the factories as an attribute access finds them.
Bundle == [memo |-> reg, cache |-> factory_cache, built |-> factory_built,
           lcache |-> logging_cache, raised |-> FALSE]

\* _SettingsRegistry.env
ResolveEnv(b) ==
    IF b.memo.env.set THEN b
    ELSE [b EXCEPT !.memo.env = [set |-> TRUE, value |-> env_settings]]

ResolveEnvState_ReadsEnvironment(b) ==
    [ResolveEnv(b) EXCEPT !.memo.env_state = [set |-> TRUE, value |-> environ.state]]

\* _SettingsRegistry.env_state
ResolveEnvState(b) ==
    IF b.memo.env_state.set THEN b
    ELSE LET b1 == ResolveEnv(b)
         IN [b1 EXCEPT !.memo.env_state = [set |-> TRUE, value |-> b1.memo.env.value.state]]

\* _SettingsRegistry.django
ResolveDjango(b) ==
    IF b.memo.django.set THEN b
    ELSE LET b1 == ResolveEnvState(b)
             r == FactoryCall(b1.cache, b1.built, b1.memo.env_state.value, environ.secret_key)
         IN IF r.raised
            THEN [b1 EXCEPT !.built = r.built, !.raised = TRUE]
            ELSE [b1 EXCEPT !.cache = r.cache, !.built = r.built,
                            !.memo.django = [set |-> TRUE,
                                             value |-> r.cache[b1.memo.env_state.value]]]

\* _SettingsRegistry.django_settings_module
ResolveDjangoSettingsModule(b) ==
    IF b.memo.django_settings_module.set THEN b
    ELSE LET b1 == ResolveDjango(b)
         IN IF b1.raised THEN b1
            ELSE [b1 EXCEPT !.memo.django_settings_module =
                     [set |-> TRUE, value |-> DjangoSettingsModule[b1.memo.django.value.variant]]]

\* _SettingsRegistry.pyproject
ResolvePyproject(b) ==
    IF b.memo.pyproject.set THEN b
    ELSE [b EXCEPT !.memo.pyproject = [set |-> TRUE, value |-> py_project_settings]]

\* _SettingsRegistry.database
ResolveDatabase(b) ==
    IF b.memo.database.set THEN b
    ELSE [b EXCEPT !.memo.database = [set |-> TRUE, value |-> database_config]]

\* _SettingsRegistry.logging
ResolveLogging(b) ==
    IF b.memo.logging.set THEN b
    ELSE LET b1 == ResolveEnvState(b)
             st == b1.memo.env_state.value
             lc == IF st \in DOMAIN b1.lcache THEN b1.lcache
                   ELSE [x \in DOMAIN b1.lcache \cup {st} |->
                           IF x = st THEN [variant |-> st] ELSE b1.lcache[x]]
         IN [b1 EXCEPT !.lcache = lc, !.memo.logging = [set |-> TRUE, value |-> lc[st]]]

\* Attribute access config_registry.<field>.
Resolve(field, b) ==
    CASE field = "env" -> ResolveEnv(b)
      [] field = "env_state" -> ResolveEnvState(b)
      [] field = "django" -> ResolveDjango(b)
      [] field = "django_settings_module" -> ResolveDjangoSettingsModule(b)
      [] field = "pyproject" -> ResolvePyproject(b)
      [] field = "database" -> ResolveDatabase(b)
      [] field = "logging" -> ResolveLogging(b)

\* get_registry under lru_cache(maxsize=1): the cached registry, or a new one.
GetRegistryCall(cached, created) ==
    IF cached # 0 THEN [id |-> cached, lru |-> cached, registries |-> created]
    ELSE [id |-> created + 1, lru |-> created + 1, registries |-> created + 1]

\* Nothing has been called on the registry yet.
NoCall == [op |-> "none", field |-> "-", raised |-> FALSE, id |-> 0]

\* config.settings.schemas.config_registry: the package's __init__ binds the
\* name when registry.py is first imported; reload_registry rebinds only
\* registry.config_registry, so the package attribute stays the first registry.
SchemasConfigRegistry == GetRegistryCall(0, 0).id

devtools_vars == <<stale_reg, guards_config, connection_db_configs, devtools_call>>

\* devtools.commands.database is not imported yet.
DevtoolsIdle ==
    /\ stale_reg = EmptyMemo
    /\ guards_config = 0
    /\ connection_db_configs = <<>>
    /\ devtools_call = [op |-> "none", id |-> 0, production |-> FALSE, aliases |-> <<>>]

\* The registry object `config` refers to, as an attribute access finds it.
ConfigBundle(config) ==
    [Bundle EXCEPT !.memo = IF config = config_registry THEN reg ELSE stale_reg]

\* Import of config.settings.schemas: registry.py imports database.py, which
\* runs the loader, then the other schema modules, which construct
\* env_settings and py_project_settings, and ends with
\* config_registry = get_registry().  A failing `default` aborts the import.
Import ==
    /\ import_state = "start"
    /\ LET db == LoadAllDatabases(DeclaredAliases, environ.db_valid)
           r == GetRegistryCall(lru, registries)
       IN IF db.fatal
          THEN /\ import_state' = "failed"
               /\ UNCHANGED <<env_settings, database_config, py_project_settings, lru,
                              registries, config_registry, reg>>
          ELSE /\ import_state' = "imported"
               /\ database_config' = db.configs
               /\ env_settings' = [state |-> environ.state]
               /\ py_project_settings' = [version |-> environ.project_version]
               /\ lru' = r.lru
               /\ registries' = r.registries
               /\ config_registry' = r.id
               /\ reg' = EmptyMemo
    /\ env_at_reload' = environ
    /\ UNCHANGED <<environ, logging_cache, last, reloads, changes, devtools_vars>>
    /\ UNCHANGED <<router_vars, loader_vars, factory_vars, schema_vars, vars>>

\* get_registry()
GetRegistry ==
    /\ import_state = "imported"
    /\ LET r == GetRegistryCall(lru, registries)
       IN /\ lru' = r.lru
          /\ registries' = r.registries
          /\ last' = [op |-> "get_registry", field |-> "-", raised |-> FALSE, id |-> r.id]
    /\ UNCHANGED <<environ, import_state, env_settings, database_config, py_project_settings,
                   logging_cache, config_registry, reg, env_at_reload, reloads, changes,
                   devtools_vars>>
    /\ UNCHANGED <<router_vars, loader_vars, factory_vars, schema_vars, vars>>

\* config_registry.<field>
Access ==
    /\ import_state = "imported"
    /\ \E field \in RegistryFields :
         LET b == Resolve(field, Bundle)
         IN /\ Len(b.built) <= MaxRequests
            /\ reg' = b.memo
            /\ factory_cache' = b.cache
            /\ factory_built' = b.built
            /\ logging_cache' = b.lcache
            /\ last' = [op |-> "access", field |-> field, raised |-> b.raised,
                        id |-> config_registry]
    /\ UNCHANGED <<environ, import_state, env_settings, database_config, py_project_settings,
                   lru, registries, config_registry, env_at_reload, reloads, changes,
                   devtools_vars>>
    /\ UNCHANGED <<factory_trace, router_vars, loader_vars, schema_vars, vars>>

\* A program that wants a registry field when the import has failed: its own
\* `from config.settings.schemas import config_registry` raises.
AccessAfterFailedImport ==
    /\ import_state = "failed"
    /\ \E field \in RegistryFields :
         last' = [op |-> "access", field |-> field, raised |-> TRUE, id |-> 0]
    /\ UNCHANGED <<environ, import_state, env_settings, database_config, py_project_settings,
                   logging_cache, lru, registries, config_registry, reg, env_at_reload,
                   reloads, changes, devtools_vars>>
    /\ UNCHANGED <<router_vars, loader_vars, factory_vars, schema_vars, vars>>

\* reload_registry(): get_registry.cache_clear(), then
\* config_registry = get_registry().
ReloadRegistry ==
    /\ import_state = "imported"
    /\ reloads < MaxReloads
    /\ LET r == GetRegistryCall(0, registries)
       IN /\ lru' = r.lru
          /\ registries' = r.registries
          /\ config_registry' = r.id
          /\ last' = [op |-> "reload_registry", field |-> "-", raised |-> FALSE, id |-> r.id]
    /\ reg' = EmptyMemo
    /\ env_at_reload' = environ
    /\ reloads' = reloads + 1
    /\ stale_reg' = IF guards_config = config_registry THEN reg ELSE stale_reg
    /\ UNCHANGED <<environ, import_state, env_settings, database_config, py_project_settings,
                   logging_cache, changes, guards_config, connection_db_configs,
                   devtools_call>>
    /\ UNCHANGED <<router_vars, loader_vars, factory_vars, schema_vars, vars>>

\* Import of devtools.commands.database, which the command line does when it
\* starts, before anything reloads: guards.py and connection.py run
\* `from config.settings.schemas import config_registry as config`, and
\* connection.py then runs db_configs = config.database.
ImportDevtools ==
    /\ import_state = "imported"
    /\ guards_config = 0
    /\ config_registry = SchemasConfigRegistry
    /\ guards_config' = SchemasConfigRegistry
    /\ LET b == ResolveDatabase(ConfigBundle(SchemasConfigRegistry))
       IN /\ connection_db_configs' = b.memo.database.value
          /\ reg' = b.memo
    /\ UNCHANGED <<environ, import_state, env_settings, database_config, py_project_settings,
                   logging_cache, lru, registries, config_registry, last, env_at_reload,
                   reloads, changes, stale_reg, devtools_call>>
    /\ UNCHANGED <<router_vars, loader_vars, factory_vars, schema_vars, vars>>

\* A call of guards.is_production(): config.env_state == EnvStateEnum.PRODUCTION
IsProductionCall ==
    /\ guards_config # 0
    /\ LET b == ResolveEnvState(ConfigBundle(guards_config))
       IN /\ devtools_call' = [op |-> "is_production", id |-> guards_config,
                               production |-> b.memo.env_state.value = "production",
                               aliases |-> <<>>]
          /\ IF guards_config = config_registry
             THEN reg' = b.memo /\ UNCHANGED stale_reg
             ELSE stale_reg' = b.memo /\ UNCHANGED reg
    /\ UNCHANGED <<environ, import_state, env_settings, database_config, py_project_settings,
                   logging_cache, lru, registries, config_registry, last, env_at_reload,
                   reloads, changes, guards_config, connection_db_configs>>
    /\ UNCHANGED <<router_vars, loader_vars, factory_vars, schema_vars, vars>>

\* connection.get_all_db_aliases(): list(db_configs.keys())
GetAllDbAliasesCall ==
    /\ guards_config # 0
    /\ devtools_call' = [op |-> "get_all_db_aliases", id |-> guards_config,
                         production |-> FALSE, aliases |-> Keys(connection_db_configs)]
    /\ UNCHANGED <<environ, import_state, env_settings, database_config, py_project_settings,
                   logging_cache, lru, registries, config_registry, reg, last, env_at_reload,
                   reloads, changes, stale_reg, guards_config, connection_db_configs>>
    /\ UNCHANGED <<router_vars, loader_vars, factory_vars, schema_vars, vars>>

\* The operator edits .env or pyproject.toml while the process runs: one
\* variable changes.
ChangeEnvironment ==
    /\ import_state = "imported"
    /\ changes < MaxEnvChanges
    /\ \E e \in Environs :
         /\ Cardinality({f \in DOMAIN e : e[f] # environ[f]}) = 1
         /\ environ' = e
    /\ changes' = changes + 1
    /\ UNCHANGED <<import_state, env_settings, database_config, py_project_settings,
                   logging_cache, lru, registries, config_registry, reg, last, env_at_reload,
                   reloads, devtools_vars>>
    /\ UNCHANGED <<router_vars, loader_vars, factory_vars, schema_vars, vars>>

\* The process before config.settings.schemas is imported.
SettingsIdle ==
    /\ environ = [state |-> "development", secret_key |-> "unset",
                  db_valid |-> Range(DeclaredAliases), project_version |-> "0.1.0"]
    /\ import_state = "start"
    /\ env_settings = [state |-> "-"]
    /\ database_config = <<>>
    /\ py_project_settings = [version |-> "-"]
    /\ logging_cache = EmptyLoggingCache
    /\ lru = 0
    /\ registries = 0
    /\ config_registry = 0
    /\ reg = EmptyMemo
    /\ last = NoCall
    /\ env_at_reload = environ
    /\ reloads = 0
    /\ changes = 0
    /\ DevtoolsIdle

\* ------------------------------- config/settings/schemas: field validation
\* Environment values are strings: sequences of characters, so that
\* str.strip(), the f-string of the URL and its parsing are computed.
MaxNameLen == 2

MaxPasswordLen == 1

MinPort == 1

MaxPort == 65535

DefaultPort == 5432

MinSecretKeyLength == 50

MinSecretKeyScore == 3

NameChars == {" ", "a", ":"}

PasswordChars == {" ", "p"}

StringsUpTo(chars, n) == UNION {[1..k -> chars] : k \in 0..n}

Localhost == <<"l", "o", "c", "a", "l", "h", "o", "s", "t">>

DatabaseEngineEnum == {"postgresql"}

EnvStateEnum == {"development", "production"}

\* str.strip(): leading and trailing whitespace removed.
RECURSIVE LStrip(_)
LStrip(v) == IF v # <<>> /\ Head(v) = " " THEN LStrip(Tail(v)) ELSE v

RECURSIVE RStrip(_)
RStrip(v) == IF v # <<>> /\ v[Len(v)] = " " THEN RStrip(SubSeq(v, 1, Len(v) - 1)) ELSE v

Strip_LeadingOnly(v) == LStrip(v)

Strip(v) == RStrip(LStrip(v))

\* validate_required_fields, on name and on user: the stripped value is kept.
ValidateRequiredFields(v) ==
    [raised |-> v = <<>> \/ Strip(v) = <<>>, value |-> Strip(v)]

\* validate_password: the value is kept as given.
ValidatePassword(v) ==
    [raised |-> v = <<>> \/ Strip(v) = <<>>, value |-> v]

\* port: int = Field(ge=1, le=65535).
ValidatePort(p) ==
    [raised |-> ~(p >= MinPort /\ p <= MaxPort), value |-> p]

\* engine: DatabaseEngineEnum.
ValidateEngine(e) ==
    [raised |-> e \notin DatabaseEngineEnum, value |-> e]

DatabaseFields == {"engine", "name", "user", "password", "port"}

NoConfig ==
    [built |-> FALSE, raised |-> FALSE, errors |-> {}, cls |-> "-", engine |-> "-",
     name |-> <<>>, user |-> <<>>, password |-> <<>>, host |-> <<>>, port |-> 0]

\* Construction of a settings object of class cls from the DB_ values e:
\* every field is validated (defaults included), the ValidationError lists
\* every field that failed, and no object exists when one did.
ConstructDatabaseConfig(cls, e) ==
    LET checked == [engine   |-> ValidateEngine(e.engine),
                    name     |-> ValidateRequiredFields(e.name),
                    user     |-> ValidateRequiredFields(e.user),
                    password |-> ValidatePassword(e.password),
                    port     |-> ValidatePort(e.port)]
        errors == {f \in DatabaseFields : checked[f].raised}
    IN IF errors # {}
       THEN [NoConfig EXCEPT !.built = TRUE, !.raised = TRUE, !.errors = errors, !.cls = cls]
       ELSE [built |-> TRUE, raised |-> FALSE, errors |-> {}, cls |-> cls,
             engine |-> checked.engine.value, name |-> checked.name.value,
             user |-> checked.user.value, password |-> checked.password.value,
             host |-> e.host, port |-> checked.port.value]

\* str(int), as the f-string renders the port.
DigitChars == <<"0", "1", "2", "3", "4", "5", "6", "7", "8", "9">>

RECURSIVE Digits(_)
Digits(n) == IF n < 10 THEN <<DigitChars[n + 1]>>
             ELSE Digits(n \div 10) \o <<DigitChars[(n % 10) + 1]>>

Scheme == <<"p", "o", "s", "t", "g", "r", "e", "s", "q", "l", ":", "/", "/">>

\* PostgreSQLDatabaseConfig.url: the fields interpolated as they are.
PostgreSQLUrl(c) ==
    Scheme \o c.user \o <<":">> \o c.password \o <<"@">> \o c.host
           \o <<":">> \o Digits(c.port) \o <<"/">> \o c.name

NoUrl == [rendered |-> FALSE, raised |-> FALSE, exc |-> "-", value |-> <<>>]

\* The url property of a constructed configuration: only the PostgreSQL
\* class overrides the base property, which raises.
Url(c) ==
    IF c.cls = "PostgreSQLDatabaseConfig"
    THEN [rendered |-> TRUE, raised |-> FALSE, exc |-> "-", value |-> PostgreSQLUrl(c)]
    ELSE [rendered |-> TRUE, raised |-> TRUE, exc |-> "NotImplementedError", value |-> <<>>]

\* DjangoProdConfig.validate_secret_key on a key of v.length characters that
\* zxcvbn scores v.score: the first failed test raises, and its message
\* names that shortfall only.
NoSecretCheck == [checked |-> FALSE, raised |-> FALSE, names |-> {}]

ValidateSecretKey(v) ==
    IF v.length = 0
    THEN [checked |-> TRUE, raised |-> TRUE, names |-> {"empty"}]
    ELSE IF v.length < MinSecretKeyLength
    THEN [checked |-> TRUE, raised |-> TRUE, names |-> {"length"}]
    ELSE IF v.score < MinSecretKeyScore
    THEN [checked |-> TRUE, raised |-> TRUE, names |-> {"strength"}]
    ELSE [checked |-> TRUE, raised |-> FALSE, names |-> {}]

\* EnvSettings(): state from ENV_STATE, the default when it is absent, a
\* ValidationError when the value is no member of EnvStateEnum.
NoEnvCheck == [loaded |-> FALSE, raised |-> FALSE, state |-> "-"]

LoadEnvSettings_FallsBackToDevelopment(raw) ==
    IF raw.present /\ raw.value \in EnvStateEnum
    THEN [loaded |-> TRUE, raised |-> FALSE, state |-> raw.value]
    ELSE [loaded |-> TRUE, raised |-> FALSE, state |-> "development"]

LoadEnvSettings(raw) ==
    IF ~raw.present
    THEN [loaded |-> TRUE, raised |-> FALSE, state |-> "development"]
    ELSE IF raw.value \in EnvStateEnum
    THEN [loaded |-> TRUE, raised |-> FALSE, state |-> raw.value]
    ELSE [loaded |-> TRUE, raised |-> TRUE, state |-> "-"]

\* The environments the schemas are exercised under: one group of values
\* varies, the others keep a value every schema accepts.
DbValues ==
    [engine : {"postgresql", "mysql"}, name : StringsUpTo(NameChars, MaxNameLen),
     user : StringsUpTo(NameChars, MaxNameLen),
     password : StringsUpTo(PasswordChars, MaxPasswordLen), host : {Localhost},
     port : {MinPort - 1, MinPort, DefaultPort, MaxPort, MaxPort + 1}]

SecretKeyValues ==
    {v \in [length : {0, 10, MinSecretKeyLength - 1, MinSecretKeyLength, 64}, score : 0..4] :
        v.length = 0 => v.score = 0}

EnvStateValues ==
    {[present |-> FALSE, value |-> ""]}
        \cup {[present |-> TRUE, value |-> v] :
                v \in {"development", "production", "staging", "Production", ""}}

DefaultDbValues ==
    [engine |-> "postgresql", name |-> <<"a">>, user |-> <<"a">>, password |-> <<"p">>,
     host |-> Localhost, port |-> DefaultPort]

SchemaEnvirons ==
    {[kind |-> "database", db |-> d, secret_key |-> [length |-> 64, score |-> 4],
      env_state |-> [present |-> FALSE, value |-> ""]] : d \in DbValues}
      \cup {[kind |-> "secret_key", db |-> DefaultDbValues, secret_key |-> k,
             env_state |-> [present |-> TRUE, value |-> "production"]] : k \in SecretKeyValues}
      \cup {[kind |-> "env_state", db |-> DefaultDbValues,
             secret_key |-> [length |-> 64, score |-> 4], env_state |-> s] :
               s \in EnvStateValues}

SchemaIdle ==
    /\ schema_environ = [kind |-> "database", db |-> DefaultDbValues,
                         secret_key |-> [length |-> 64, score |-> 4],
                         env_state |-> [present |-> FALSE, value |-> ""]]
    /\ built_config = NoConfig
    /\ built_url = NoUrl
    /\ secret_key_check = NoSecretCheck
    /\ env_state_check = NoEnvCheck

SchemaFrame == UNCHANGED <<router_vars, loader_vars, factory_vars, settings_vars, vars>>

\* _load_all_databases line 219: BaseDatabaseConfig.with_prefix(...), a
\* subclass of the base class with another prefix.
LoaderBuildsConfig ==
    /\ schema_environ.kind = "database"
    /\ ~built_config.built
    /\ built_config' = ConstructDatabaseConfig("BaseDatabaseConfig", schema_environ.db)
    /\ UNCHANGED <<schema_environ, built_url, secret_key_check, env_state_check>>
    /\ SchemaFrame

\* DatabaseConfigFactory.__call__ asked for the one engine it supports:
\* PostgreSQLDatabaseConfig(), which reads the same DB_ values.
FactoryBuildsConfig ==
    /\ schema_environ.kind = "database"
    /\ ~built_config.built
    /\ built_config' = ConstructDatabaseConfig("PostgreSQLDatabaseConfig", schema_environ.db)
    /\ UNCHANGED <<schema_environ, built_url, secret_key_check, env_state_check>>
    /\ SchemaFrame

\* First access of the url property of a constructed configuration.
RenderUrl ==
    /\ built_config.built
    /\ ~built_config.raised
    /\ ~built_url.rendered
    /\ built_url' = Url(built_config)
    /\ UNCHANGED <<schema_environ, built_config, secret_key_check, env_state_check>>
    /\ SchemaFrame

\* DjangoProdConfig() validating DJANGO_SECRET_KEY.
CheckSecretKey ==
    /\ schema_environ.kind = "secret_key"
    /\ ~secret_key_check.checked
    /\ secret_key_check' = ValidateSecretKey(schema_environ.secret_key)
    /\ UNCHANGED <<schema_environ, built_config, built_url, env_state_check>>
    /\ SchemaFrame

\* environment.py line 60, at import: env_settings = EnvSettings().
CheckEnvState ==
    /\ schema_environ.kind = "env_state"
    /\ ~env_state_check.loaded
    /\ env_state_check' = LoadEnvSettings(schema_environ.env_state)
    /\ UNCHANGED <<schema_environ, built_config, built_url, secret_key_check>>
    /\ SchemaFrame

\* ------------------- config/settings/schemas/database.py: alias prefixes
\* Alias identifiers are strings: sequences of characters, so that
\* str.upper() and the f-string of the prefix are computed.
MaxAliasLen == 2

\* Longest DB_ALIASES list the prefixes are derived for.
MaxDeclared == 2

AliasChars == {"a", "A", "2"}

DefaultAlias == <<"d", "e", "f", "a", "u", "l", "t">>

\* The alias strings a DB_ALIASES list is made of.
AliasStrings == (StringsUpTo(AliasChars, MaxAliasLen) \ {<<>>}) \cup {DefaultAlias}

DeclaredLists == UNION {[1..n -> AliasStrings] : n \in 0..MaxDeclared}

\* str.upper() on the letters the alias strings contain.
UpperCase == [a |-> "A", d |-> "D", e |-> "E", f |-> "F", l |-> "L", t |-> "T", u |-> "U"]

Upper(str) ==
    [i \in 1..Len(str) |-> IF str[i] \in DOMAIN UpperCase THEN UpperCase[str[i]] ELSE str[i]]

\* "DB_" if alias == "default" else f"DB_{alias.upper()}_"
EnvPrefix(alias) ==
    IF alias = DefaultAlias THEN <<"D", "B", "_">>
    ELSE <<"D", "B", "_">> \o Upper(alias) \o <<"_">>

\* BaseDatabaseConfig.with_prefix(prefix, alias=alias): the settings object
\* reads its fields under env_prefix; the alias is the keyword argument, which
\* takes precedence over a <prefix>ALIAS variable.
WithPrefix(prefix, alias) == [alias |-> alias, env_prefix |-> prefix]

\* configs[alias] = db_config
SetItem(configs, alias, db_config) ==
    IF \E i \in 1..Len(configs) : configs[i].key = alias
    THEN [i \in 1..Len(configs) |->
            IF configs[i].key = alias THEN [key |-> alias, config |-> db_config]
            ELSE configs[i]]
    ELSE Append(configs, [key |-> alias, config |-> db_config])

\* The loader's loop before its first iteration.
PrefixIdle ==
    /\ alias_environ = [aliases |-> <<DefaultAlias>>, incomplete |-> {}]
    /\ alias_configs = <<>>
    /\ alias_loop = [next |-> 1, state |-> "running"]

\* One iteration of `for alias in aliases`: the prefix, the construction, the
\* store; a failing construction ends the load for `default` and is logged
\* and skipped for any other alias.
LoadAlias ==
    /\ alias_loop.state = "running"
    /\ alias_loop.next <= Len(alias_environ.aliases)
    /\ LET alias == alias_environ.aliases[alias_loop.next]
           env_prefix == EnvPrefix(alias)
       IN IF env_prefix \in alias_environ.incomplete
          THEN IF alias = DefaultAlias
               THEN /\ alias_loop' = [alias_loop EXCEPT !.state = "fatal"]
                    /\ alias_configs' = <<>>
               ELSE /\ alias_loop' = [alias_loop EXCEPT !.next = @ + 1]
                    /\ UNCHANGED alias_configs
          ELSE /\ alias_configs' = SetItem(alias_configs, alias, WithPrefix(env_prefix, alias))
               /\ alias_loop' = [alias_loop EXCEPT !.next = @ + 1]
    /\ UNCHANGED <<alias_environ, load_input, load_result>>
    /\ UNCHANGED <<router_vars, factory_vars, settings_vars, schema_vars, vars>>

\* return configs
ReturnConfigs ==
    /\ alias_loop.state = "running"
    /\ alias_loop.next > Len(alias_environ.aliases)
    /\ alias_loop' = [alias_loop EXCEPT !.state = "loaded"]
    /\ UNCHANGED <<alias_environ, alias_configs, load_input, load_result>>
    /\ UNCHANGED <<router_vars, factory_vars, settings_vars, schema_vars, vars>>

\* --------------------------------------------------------- specifications
\* The router as the class declares it, not yet asked anything.
RouterIdle ==
    /\ route_app_labels = EmptyRoutes
    /\ router_call = NoRouterCall

\* The loader before it runs.
LoaderIdle ==
    /\ load_input = [aliases |-> DeclaredAliases, valid |-> Range(DeclaredAliases)]
    /\ load_result = NotLoaded
    /\ PrefixIdle

\* EnvironmentBasedFactory.__init__: an empty cache.
FactoryIdle ==
    /\ factory_cache = EmptyCache
    /\ factory_built = <<>>
    /\ factory_trace = <<>>

\* The configuration layer at rest, while the commands run.
ConfigSideIdle == RouterIdle /\ LoaderIdle /\ FactoryIdle /\ SettingsIdle /\ SchemaIdle

\* No command runs: the state the configuration layer is exercised in.
CommandsIdle ==
    /\ env_state = "development"
    /\ db_configs = LoadAllDatabases(DeclaredAliases, Range(DeclaredAliases)).configs
    /\ databases = {}
    /\ roles = {}
    /\ inv = NoInvocation
    /\ pc = "idle"
    /\ cur = "default"
    /\ pending = <<>>
    /\ db_exists = FALSE
    /\ user_exists = FALSE
    /\ conns = 0
    /\ log = <<>>
    /\ outcomes = <<>>
    /\ exit_code = -1
    /\ faults = 0
    /\ before = <<{}, {}>>

\* ---------------------------------------------------------- specification
\* The process starts with the registry resolved: ENV_STATE decides the
\* state, the loader has built the alias map (a load that raised never
\* reaches a command), and the server holds nothing yet.
Init ==
    /\ env_state \in EnvStates
    /\ \E valid \in SUBSET Range(DeclaredAliases) :
          /\ ~LoadAllDatabases(DeclaredAliases, valid).fatal
          /\ db_configs = LoadAllDatabases(DeclaredAliases, valid).configs
    /\ databases = {}
    /\ roles = {}
    /\ inv = NoInvocation
    /\ pc = "idle"
    /\ cur = "default"
    /\ pending = <<>>
    /\ db_exists = FALSE
    /\ user_exists = FALSE
    /\ conns = 0
    /\ log = <<>>
    /\ outcomes = <<>>
    /\ exit_code = -1
    /\ faults = 0
    /\ before = <<{}, {}>>
    /\ ConfigSideIdle

Next ==
    \/ CreateDatabase
    \/ DropDatabase
    \/ ResetDatabase
    \/ CreateUser
    \/ DropUser
    \/ Setup
    \/ WBegin
    \/ WPrompt
    \/ WConnect
    \/ WDropGuard
    \/ SDropDb
    \/ STerminateUser
    \/ SDropUser
    \/ SCreateUser
    \/ SCreateDb
    \/ SGrant
    \/ SMigrate
    \/ Interrupt
    \/ Info
    \/ Verify
    \/ VerifyShow
    \/ VerifyConnect
    \/ VerifyQuery
    \/ VerifyMigrations
    \/ Exited

Spec == Init /\ [][Next]_vars

\* The router under any route map a project may configure.
RouterInit ==
    /\ route_app_labels \in RouteMaps
    /\ router_call = NoRouterCall
    /\ LoaderIdle
    /\ FactoryIdle
    /\ SettingsIdle
    /\ CommandsIdle
    /\ SchemaIdle

RouterNext ==
    \/ CallDbForRead
    \/ CallDbForWrite
    \/ CallAllowRelation
    \/ CallAllowMigrate

RouterSpec == RouterInit /\ [][RouterNext]_router_vars

\* The loader under any DB_ALIASES list and any set of constructible aliases.
LoaderInit ==
    /\ \E aliases \in AliasLists, valid \in SUBSET AliasNames :
         load_input = [aliases |-> aliases, valid |-> valid]
    /\ load_result = NotLoaded
    /\ PrefixIdle
    /\ RouterIdle
    /\ FactoryIdle
    /\ SettingsIdle
    /\ CommandsIdle
    /\ SchemaIdle

LoaderNext == LoadDatabases

LoaderSpec == LoaderInit /\ [][LoaderNext]_loader_vars

\* The loader's loop on any DB_ALIASES list, with at most one prefix whose
\* variables are incomplete.
PrefixInit ==
    /\ \E aliases \in DeclaredLists :
         \E incomplete \in {{}} \cup {{EnvPrefix(a)} : a \in Range(aliases)} :
            alias_environ = [aliases |-> aliases, incomplete |-> incomplete]
    /\ alias_configs = <<>>
    /\ alias_loop = [next |-> 1, state |-> "running"]
    /\ load_input = [aliases |-> DeclaredAliases, valid |-> Range(DeclaredAliases)]
    /\ load_result = NotLoaded
    /\ RouterIdle
    /\ FactoryIdle
    /\ SettingsIdle
    /\ CommandsIdle
    /\ SchemaIdle

PrefixNext ==
    \/ LoadAlias
    \/ ReturnConfigs

PrefixSpec == PrefixInit /\ [][PrefixNext]_loader_vars

\* One factory under any sequence of requests.
FactoryInit ==
    /\ FactoryIdle
    /\ RouterIdle
    /\ LoaderIdle
    /\ SettingsIdle
    /\ CommandsIdle
    /\ SchemaIdle

FactoryNext == FactoryRequest

FactorySpec == FactoryInit /\ [][FactoryNext]_factory_vars

\* A process that imports the settings package under any environment, uses
\* the registry, reloads it, and has its environment changed meanwhile.
SettingsInit ==
    /\ environ \in Environs
    /\ import_state = "start"
    /\ env_settings = [state |-> "-"]
    /\ database_config = <<>>
    /\ py_project_settings = [version |-> "-"]
    /\ logging_cache = EmptyLoggingCache
    /\ lru = 0
    /\ registries = 0
    /\ config_registry = 0
    /\ reg = EmptyMemo
    /\ last = NoCall
    /\ env_at_reload = environ
    /\ reloads = 0
    /\ changes = 0
    /\ DevtoolsIdle
    /\ FactoryIdle
    /\ RouterIdle
    /\ LoaderIdle
    /\ CommandsIdle
    /\ SchemaIdle

SettingsNext ==
    \/ Import
    \/ GetRegistry
    \/ Access
    \/ AccessAfterFailedImport
    \/ ReloadRegistry
    \/ ChangeEnvironment

SettingsSpec == SettingsInit /\ [][SettingsNext]_<<settings_vars, factory_vars>>

\* A process that imports the settings package and the database commands,
\* calls the guard and the alias lookup, reloads the registry, and has its
\* environment changed meanwhile.
DevtoolsNext ==
    \/ Import
    \/ ReloadRegistry
    \/ ChangeEnvironment
    \/ ImportDevtools
    \/ IsProductionCall
    \/ GetAllDbAliasesCall

DevtoolsSpec == SettingsInit /\ [][DevtoolsNext]_settings_vars

\* The schemas under any one group of environment values.
SchemaInit ==
    /\ schema_environ \in SchemaEnvirons
    /\ built_config = NoConfig
    /\ built_url = NoUrl
    /\ secret_key_check = NoSecretCheck
    /\ env_state_check = NoEnvCheck
    /\ RouterIdle
    /\ LoaderIdle
    /\ FactoryIdle
    /\ SettingsIdle
    /\ CommandsIdle

SchemaNext ==
    \/ LoaderBuildsConfig
    \/ FactoryBuildsConfig
    \/ RenderUrl
    \/ CheckSecretKey
    \/ CheckEnvState

SchemaSpec == SchemaInit /\ [][SchemaNext]_schema_vars

TypeOK ==
    /\ env_state \in EnvStates
    /\ pc \in WorkflowPcs \cup VerifyPcs \cup {"idle", "done"}
    /\ exit_code \in {-1, 0, 1}
    /\ conns \in 0..1

\* ------------------------------------------------------------- properties
Done == pc = "done"

\* The keys of the loaded alias map.
Configured == Range(Keys(db_configs))

\* Some logged event of the kinds `evs` belongs to the workflow of `alias`.
HasEvent(evs, alias) == \E i \in 1..Len(log) : log[i].ev \in evs /\ log[i].alias = alias

\* The guard refused an operation of the running invocation.
GuardBlocked == \E i \in 1..Len(log) : log[i].ev = "guard_block"

\* The guard refused the command before any single-alias workflow started.
EntryGuardBlocked == \E i \in 1..Len(log) : log[i].ev = "guard_block" /\ log[i].alias = "-"

\* The aliases whose workflow has ended, in the order they were attempted.
Attempted == [i \in 1..Len(outcomes) |-> outcomes[i].alias]

DropEvents == {"DROP DATABASE", "DROP USER", "terminate_db_sessions", "terminate_user_sessions"}

\* C1: every evaluation of the production safety guard blocks if and only if
\* the environment state is production and --allow-in-production is not
\* given, whatever the operation name.
C1_GuardBlocksIffProductionWithoutOverride ==
    \A i \in 1..Len(log) :
        log[i].ev \in {"guard_block", "guard_allow"} =>
            (log[i].ev = "guard_block" <=> (env_state = "production" /\ ~inv.allow_in_production))

\* C1 witness: drop-user was refused in production without the override.
C1_Witness ==
    /\ Done
    /\ env_state = "production"
    /\ ~inv.allow_in_production
    /\ \E i \in 1..Len(log) : log[i].ev = "guard_block" /\ log[i].arg = "drop user"
    /\ exit_code = 1

\* C2 (as claimed): after an invocation in which the guard blocked, every
\* database and every user exists exactly as it did before the invocation.
C2_GuardBlockedInvocationChangesNothing ==
    (Done /\ GuardBlocked) => server = before

\* C3 (as claimed): an invocation in which the guard blocks an operation
\* exits with a nonzero code, single alias or --all.
C3_GuardBlockExitsNonzero ==
    (Done /\ GuardBlocked) => exit_code # 0

\* C4: once the entry guard is passed, an --all invocation attempts the
\* workflow of every configured alias exactly once and in declaration order:
\* while it runs, the aliases done, the running one and the pending ones make
\* up the alias list, and when it ends every alias has been attempted,
\* whatever the outcome of the earlier ones.
C4_FanOutAttemptsEveryAliasInOrder ==
    inv.all_dbs =>
        /\ pc \in WorkflowPcs => Attempted \o <<cur>> \o pending = GetAllDbAliases
        /\ (Done /\ ~EntryGuardBlocked) => Attempted = GetAllDbAliases

\* C4 witness: the first alias's workflow aborted and the second one still
\* ran to success.
C4_Witness ==
    /\ Done
    /\ inv.all_dbs
    /\ Len(outcomes) = 2
    /\ outcomes[1].left = "Exit1"
    /\ outcomes[2].result = "success"

\* C5 (as claimed): setup --all where the first alias succeeds and the second
\* alias's admin connection is rejected leaves the first alias fully set up
\* and exits with a status other than that of an all-success run (0).
C5_SetupAllPartialFailureExit ==
    (/\ Done
     /\ inv.cmd = "setup"
     /\ inv.all_dbs
     /\ Len(outcomes) = 2
     /\ outcomes[1].result = "success"
     /\ outcomes[2].result = "connection_failed")
    => /\ EnvDbName[outcomes[1].alias] \in databases
       /\ EnvDbUser[outcomes[1].alias] \in roles
       /\ HasEvent({"GRANT"}, outcomes[1].alias)
       /\ exit_code # 0

\* C6 (as claimed): a workflow of drop, reset, drop-user or create-user --drop
\* cancelled at a confirmation prompt issues no destructive statement and ends
\* with exit code 0.
C6_CancelledExitsZero ==
    \A i \in 1..Len(outcomes) :
        (/\ outcomes[i].result = "cancelled"
         /\ ~inv.force
         /\ inv.cmd \in {"drop", "reset", "drop-user"} \/ (inv.cmd = "create-user" /\ inv.drop))
        => /\ ~HasEvent(DropEvents, outcomes[i].alias)
           /\ outcomes[i].left # "Exit1"
           /\ (Done /\ ~inv.all_dbs) => exit_code = 0

\* C7 (as claimed): drop on an absent database and drop-user on an absent user
\* issue no DROP and no session termination and end with exit code 0.
C7_DropAbsentIsBenign ==
    \A i \in 1..Len(outcomes) :
        (outcomes[i].result = "does_not_exist" /\ inv.cmd \in {"drop", "drop-user"})
        => /\ ~HasEvent(DropEvents, outcomes[i].alias)
           /\ outcomes[i].left # "Exit1"
           /\ (Done /\ ~inv.all_dbs) => exit_code = 0

\* The outcome of the workflow that has just ended.
LastOutcome == outcomes[Len(outcomes)]

\* C8: when create reaches the existence check of an alias whose database
\* exists, it issues no statement, leaves the server as it is and ends the
\* workflow with the "already exists" failure, typer.Exit(1), in every
\* environment; only a refused connection or a Ctrl-C can pre-empt the check.
C8_CreateOnExistingFails ==
    [][(pc = "w_connect" /\ inv.cmd = "create" /\ CurName \in databases) =>
         /\ log' = log
         /\ databases' = databases
         /\ roles' = roles
         /\ Len(outcomes') = Len(outcomes) + 1
         /\ LastOutcome'.result \in {"already_exists", "connection_failed", "interrupted"}
         /\ LastOutcome'.result = "already_exists" =>
              /\ LastOutcome'.left = "Exit1"
              /\ ~inv.all_dbs => exit_code' = 1]_vars

\* C8 witness: create on an existing database, here in production, failed
\* with exit code 1.
C8_Witness ==
    /\ Done
    /\ inv.cmd = "create"
    /\ ~inv.all_dbs
    /\ env_state = "production"
    /\ Len(outcomes) = 1
    /\ outcomes[1].result = "already_exists"
    /\ EnvDbName[outcomes[1].alias] \in databases
    /\ exit_code = 1

\* C9: a workflow that ended with the success outcome left its alias in the
\* state the command names: database present after create, reset and setup,
\* user present after setup and create-user, database absent after drop, user
\* absent after drop-user; a single-alias success exits 0.
C9_SuccessMeansState ==
    \A i \in 1..Len(outcomes) :
        outcomes[i].result = "success" =>
            LET name == EnvDbName[outcomes[i].alias]
                user == EnvDbUser[outcomes[i].alias]
            IN /\ outcomes[i].left = "return"
               /\ inv.cmd \in {"create", "reset", "setup"} => name \in databases
               /\ inv.cmd \in {"setup", "create-user"} => user \in roles
               /\ inv.cmd = "drop" => name \notin databases
               /\ inv.cmd = "drop-user" => user \notin roles
               /\ (Done /\ ~inv.all_dbs) => exit_code = 0

\* C9 witness: in development, create --alias db2 on an absent database2
\* ended with the database present and exit code 0.
C9_Witness ==
    /\ Done
    /\ env_state = "development"
    /\ inv.cmd = "create"
    /\ ~inv.all_dbs
    /\ inv.alias = "db2"
    /\ Len(outcomes) = 1
    /\ outcomes[1].result = "success"
    /\ log = <<[ev |-> "CREATE DATABASE", arg |-> "database2", alias |-> "db2"]>>
    /\ "database2" \in databases
    /\ exit_code = 0

\* C10: get_db_config raises the alias-not-found KeyError, listing exactly
\* the keys of the loaded map, for every alias that is not a key (undeclared,
\* or declared and skipped at load), and returns the key's own configuration
\* for every key; a workflow started on a missing alias ends there (unless a
\* Ctrl-C comes first) and no workflow of a key ends that way.
C10_AliasLookup ==
    /\ \A alias \in AliasArgs :
         IF alias \in Configured
         THEN /\ GetDbConfig(alias).raised = "none"
              /\ \E k \in 1..Len(db_configs) :
                   /\ db_configs[k].alias = alias
                   /\ GetDbConfig(alias).name = db_configs[k].name
                   /\ GetDbConfig(alias).user = db_configs[k].user
         ELSE /\ GetDbConfig(alias).raised = "KeyError"
              /\ GetDbConfig(alias).available = Keys(db_configs)
    /\ \A i \in 1..Len(outcomes) :
         /\ outcomes[i].alias \notin Configured =>
              outcomes[i].result \in {"alias_not_found", "interrupted"}
         /\ outcomes[i].result = "alias_not_found" => outcomes[i].alias \notin Configured
         /\ outcomes[i].result = "alias_not_found" =>
              /\ outcomes[i].exc = "KeyError"
              /\ outcomes[i].available = Keys(db_configs)
              /\ ~HasEvent(MutatingEvents, outcomes[i].alias)

\* C10 witness: db2 is declared in DB_ALIASES but was skipped at load; the
\* lookup failed and listed the one configured alias.
C10_Witness ==
    /\ Done
    /\ Keys(db_configs) = <<"default">>
    /\ Len(outcomes) = 1
    /\ outcomes[1].alias = "db2"
    /\ outcomes[1].result = "alias_not_found"
    /\ outcomes[1].available = <<"default">>

\* ------------------------------------------------- properties: the loader
\* Position of the first occurrence of `alias` in DB_ALIASES.
FirstDeclared(alias) ==
    CHOOSE i \in 1..Len(load_input.aliases) :
        /\ load_input.aliases[i] = alias
        /\ \A k \in 1..(i - 1) : load_input.aliases[k] # alias

\* The keys of the map the loader returned.
LoadedKeys == Keys(load_result.configs)

\* C11: the load is fatal exactly when `default` is declared and its
\* construction fails; otherwise it completes, whatever other aliases fail, and
\* the keys of the map are exactly the declared aliases whose construction
\* succeeds, each once, in the order DB_ALIASES first declares them, each with
\* its own configuration.
C11_LoaderFatalOnlyForDefault ==
    load_result.state # "pending" =>
        /\ load_result.state = "fatal" <=>
             ("default" \in Range(load_input.aliases) /\ "default" \notin load_input.valid)
        /\ load_result.state = "loaded" =>
             /\ Range(LoadedKeys) = Range(load_input.aliases) \cap load_input.valid
             /\ \A i \in 1..Len(LoadedKeys), k \in 1..Len(LoadedKeys) :
                  i < k => FirstDeclared(LoadedKeys[i]) < FirstDeclared(LoadedKeys[k])
             /\ \A i \in 1..Len(LoadedKeys) :
                  /\ load_result.configs[i].name = EnvDbName[LoadedKeys[i]]
                  /\ load_result.configs[i].user = EnvDbUser[LoadedKeys[i]]

\* C11 witness: db2 fails between two aliases that load; the load completes
\* without db2 and keeps the declaration order of the other two.
C11_Witness ==
    /\ load_input.aliases = <<"default", "db2", "analytics">>
    /\ load_input.valid = {"default", "analytics"}
    /\ load_result.state = "loaded"
    /\ LoadedKeys = <<"default", "analytics">>

\* C12 (as claimed): every load that completes yields a map with the key
\* `default`, whatever DB_ALIASES lists.
C12_DefaultAlwaysLoaded ==
    load_result.state = "loaded" => "default" \in Range(LoadedKeys)

\* ------------------------------------------------- properties: the router
\* The aliases on which allow_migrate lets `label` migrate.
MigrationHomes(label) == {db \in RouterAliases : AllowMigrate(db, label)}

\* C17: for every label allow_migrate answers TRUE or FALSE, and TRUE on
\* exactly one alias: `default` for a system label, the mapped alias for a
\* routed label that is not a system label, `default` for any other label.
C17_AllowMigrateExactlyOneAlias ==
    /\ \A label \in AppLabels :
         /\ \A db \in RouterAliases : AllowMigrate(db, label) \in BOOLEAN
         /\ Cardinality(MigrationHomes(label)) = 1
         /\ label \in DjangoSystemApps => MigrationHomes(label) = {"default"}
         /\ (label \notin DjangoSystemApps /\ label \in DOMAIN route_app_labels) =>
              MigrationHomes(label) = {route_app_labels[label]}
         /\ (label \notin DjangoSystemApps /\ label \notin DOMAIN route_app_labels) =>
              MigrationHomes(label) = {"default"}
    /\ router_call.op = "allow_migrate" =>
         /\ router_call.result \in BOOLEAN
         /\ router_call.result <=> MigrationHomes(router_call.label) = {router_call.db}

\* C17 witness: myapp is routed to db2 and allow_migrate("db2", "myapp") was
\* answered TRUE.
C17_Witness ==
    /\ "myapp" \in DOMAIN route_app_labels
    /\ route_app_labels["myapp"] = "db2"
    /\ router_call.op = "allow_migrate"
    /\ router_call.label = "myapp"
    /\ router_call.db = "db2"
    /\ router_call.result = TRUE

\* C18: for every pair of labels allow_relation answers TRUE or FALSE, and
\* TRUE exactly when db_for_read gives both labels the same alias and
\* db_for_write gives both labels the same alias.
C18_AllowRelationIffSameAlias ==
    /\ \A label \in AppLabels, other \in AppLabels :
         /\ AllowRelation(label, other) \in BOOLEAN
         /\ AllowRelation(label, other) <=> DbForRead(label) = DbForRead(other)
         /\ AllowRelation(label, other) <=> DbForWrite(label) = DbForWrite(other)
    /\ router_call.op = "allow_relation" =>
         (router_call.result <=> DbForRead(router_call.label) = DbForRead(router_call.other))

\* C18 witness: a relation between a system label routed away from default
\* and an unrouted label was refused.
C18_Witness ==
    /\ "auth" \in DOMAIN route_app_labels
    /\ route_app_labels["auth"] = "db2"
    /\ router_call.op = "allow_relation"
    /\ router_call.label = "auth"
    /\ router_call.other = "blog"
    /\ router_call.result = FALSE

\* C19 (as claimed): read and write targets of a label agree, a label in
\* neither the route map nor the system set resolves to default, and every
\* system label resolves to default whatever the route map contains.
C19_SystemLabelsPinnedToDefault ==
    /\ \A label \in AppLabels : DbForRead(label) = DbForWrite(label)
    /\ router_call.op \in {"db_for_read", "db_for_write"} =>
         /\ (router_call.label \notin DjangoSystemApps
             /\ router_call.label \notin DOMAIN route_app_labels) => router_call.result = "default"
         /\ router_call.label \in DjangoSystemApps => router_call.result = "default"

\* C20 (as claimed): the one alias allow_migrate permits for a label is the
\* alias db_for_read and db_for_write return for it.
C20_OneHomeAlias ==
    router_call.op \in {"db_for_read", "db_for_write"} =>
        /\ MigrationHomes(router_call.label) = {router_call.result}
        /\ DbForRead(router_call.label) = DbForWrite(router_call.label)

\* ------------------------------------------------ properties: the factory
\* The requests for `state` made so far, by position in the trace.
RequestsFor(state) == {i \in 1..Len(factory_trace) : factory_trace[i].state = state}

\* How often the constructor of `state` has been invoked.
Constructions(state) == Cardinality({i \in 1..Len(factory_built) : factory_built[i] = state})

\* C13 (as claimed): the constructor of a state is invoked at most once, and
\* only by the first request for that state.
C13_ConstructorAtMostOnce ==
    \A state \in EnvStates :
        /\ Constructions(state) <= 1
        /\ \A i \in RequestsFor(state) :
             factory_trace[i].invoked > 0 => \A k \in RequestsFor(state) : i <= k

\* C13 (amended): a request invokes the constructor of its state, once, exactly
\* when no earlier request for that state returned an instance (a construction
\* that raises is not memoized and is tried again by the next request); once a
\* request returned an instance every later request for that state returns that
\* same instance without raising; and the constructor of a state that was never
\* requested is never invoked.
C13_MemoizesSuccessfulConstruction ==
    \A state \in EnvStates :
        /\ \A i \in RequestsFor(state) :
             LET earlier == {k \in RequestsFor(state) : k < i /\ ~factory_trace[k].raised}
             IN /\ factory_trace[i].invoked = (IF earlier = {} THEN 1 ELSE 0)
                /\ \A k \in earlier :
                     /\ ~factory_trace[i].raised
                     /\ factory_trace[i].id = factory_trace[k].id
        /\ Constructions(state) =
             Cardinality({i \in RequestsFor(state) : factory_trace[i].invoked > 0})
        /\ RequestsFor(state) = {} => Constructions(state) = 0
        /\ state \in DOMAIN factory_cache <=>
             \E i \in RequestsFor(state) : ~factory_trace[i].raised

\* C13 witness: development was requested three times and constructed once,
\* production was never requested and never constructed.
C13_Witness ==
    /\ Len(factory_trace) = 3
    /\ \A i \in 1..3 : factory_trace[i].state = "development" /\ factory_trace[i].id = 1
    /\ factory_built = <<"development">>
    /\ "production" \notin DOMAIN factory_cache

\* ----------------------------------------------- properties: the registry
\* C14: in every step other than a reload, the registry the process uses stays
\* the same object, get_registry() returns that object, and every field already
\* computed keeps its value, the resolved environment state included, also in
\* a step that changes the environment variables.
C14_MemoizedBetweenReloads ==
    [][(import_state = "imported" /\ reloads' = reloads) =>
         /\ config_registry' = config_registry
         /\ last'.op = "get_registry" => last'.id = config_registry
         /\ \A field \in RegistryFields : reg[field].set => reg'[field] = reg[field]
      ]_<<settings_vars, factory_vars>>

\* C14 witness: ENV_STATE was changed after the environment state had been
\* resolved; without a reload the registry is the first one, get_registry()
\* returned it and env_state still has the value first computed.
C14_Witness ==
    /\ reloads = 0
    /\ changes = 1
    /\ reg.env_state.set
    /\ reg.env_state.value # environ.state
    /\ reg.env_state.value = env_at_reload.state
    /\ last.op = "get_registry"
    /\ last.id = config_registry

\* C15 (as claimed): after reload_registry(), with the environment left as it
\* was at the reload, every field the registry has computed is the value
\* derived from that environment, and the framework configuration is not an
\* instance constructed before the reload.
C15_ReloadRederivesEveryField ==
    (reloads > 0 /\ environ = env_at_reload) =>
        /\ reg.env.set => reg.env.value.state = env_at_reload.state
        /\ reg.env_state.set => reg.env_state.value = env_at_reload.state
        /\ reg.django.set =>
             /\ reg.django.value.variant = env_at_reload.state
             /\ reg.django.value.secret_key = env_at_reload.secret_key
        /\ reg.django_settings_module.set =>
             reg.django_settings_module.value = DjangoSettingsModule[env_at_reload.state]
        /\ reg.logging.set => reg.logging.value.variant = env_at_reload.state
        /\ (reg.database.set
            /\ ~LoadAllDatabases(DeclaredAliases, env_at_reload.db_valid).fatal) =>
             reg.database.value = LoadAllDatabases(DeclaredAliases, env_at_reload.db_valid).configs
        /\ reg.pyproject.set => reg.pyproject.value.version = env_at_reload.project_version

\* Fields whose resolution reads nothing of the database configuration.
DatabaseIndependentFields == {"env", "env_state", "logging", "pyproject"}

\* C16 (as claimed): an access to a field that does not depend on the database
\* configuration succeeds, also when the `default` database configuration is
\* invalid.
C16_FieldsFailIndependently ==
    (last.op = "access" /\ last.field \in DatabaseIndependentFields) => ~last.raised

\* ------------------------------------------------ properties: the schemas
Blank(v) == \A i \in 1..Len(v) : v[i] = " "

Trimmed(v) == v = <<>> \/ (v[1] # " " /\ v[Len(v)] # " ")

\* The fields whose given value breaks the documented invariant.
ViolatingFields(e) ==
    {f \in DatabaseFields :
        CASE f = "name" -> Blank(e.name)
          [] f = "user" -> Blank(e.user)
          [] f = "password" -> Blank(e.password)
          [] f = "port" -> e.port < 1 \/ e.port > 65535
          [] f = "engine" -> e.engine # "postgresql"}

\* C21: a database configuration is constructed exactly when no given value
\* breaks the invariant; a constructed one has name and user non-empty and
\* free of surrounding whitespace, a non-empty password, a port in
\* [1, 65535] and a supported engine; a refused construction names every
\* field whose value broke the invariant, and only those.
C21_HeldConfigsAreValid ==
    built_config.built =>
        /\ built_config.raised <=> ViolatingFields(schema_environ.db) # {}
        /\ built_config.raised => built_config.errors = ViolatingFields(schema_environ.db)
        /\ ~built_config.raised =>
              /\ built_config.name # <<>> /\ Trimmed(built_config.name)
              /\ built_config.user # <<>> /\ Trimmed(built_config.user)
              /\ built_config.password # <<>>
              /\ built_config.port \in 1..65535
              /\ built_config.engine = "postgresql"

C21_Witness ==
    /\ built_config.built
    /\ ~built_config.raised
    /\ built_config.cls = "BaseDatabaseConfig"
    /\ schema_environ.db.name = <<"a", " ">>
    /\ built_config.name = <<"a">>

\* Parsing of a URL by its delimiters: the authority ends at the first "/"
\* after the scheme, the user information at the last "@" of the authority,
\* the user at the first ":" of the user information, and the port follows
\* the last ":" of what remains.
Positions(s, c) == {i \in 1..Len(s) : s[i] = c}

Lowest(S) == CHOOSE i \in S : \A j \in S : i <= j

Highest(S) == CHOOSE i \in S : \A j \in S : i >= j

Before(s, i) == SubSeq(s, 1, i - 1)

After(s, i) == SubSeq(s, i + 1, Len(s))

RECURSIVE ToInt(_)
ToInt(d) ==
    IF d = <<>> THEN 0
    ELSE LET c == d[Len(d)]
             rest == ToInt(Before(d, Len(d)))
         IN IF rest < 0 \/ Positions(DigitChars, c) = {} THEN -1
            ELSE 10 * rest + (Lowest(Positions(DigitChars, c)) - 1)

ParseUrl(url) ==
    LET rest == After(url, Len(Scheme))
        slash == Positions(rest, "/")
        authority == IF slash = {} THEN rest ELSE Before(rest, Lowest(slash))
        path == IF slash = {} THEN <<>> ELSE After(rest, Lowest(slash))
        at == Positions(authority, "@")
        userinfo == IF at = {} THEN <<>> ELSE Before(authority, Highest(at))
        hostport == IF at = {} THEN authority ELSE After(authority, Highest(at))
        uc == Positions(userinfo, ":")
        hc == Positions(hostport, ":")
    IN [user |-> IF uc = {} THEN userinfo ELSE Before(userinfo, Lowest(uc)),
        host |-> IF hc = {} THEN hostport ELSE Before(hostport, Highest(hc)),
        port |-> IF hc = {} THEN -1 ELSE ToInt(After(hostport, Highest(hc))),
        name |-> path]

Configured4(c) == [user |-> c.user, host |-> c.host, port |-> c.port, name |-> c.name]

\* C22: the URL of every configuration the alias loader built renders, and
\* parses back to the configured host, port, user and database name.
C22_LoaderUrlRoundTrip ==
    (built_url.rendered /\ built_config.cls = "BaseDatabaseConfig") =>
        /\ ~built_url.raised
        /\ ParseUrl(built_url.value) = Configured4(built_config)

\* C23: a secret key that is both shorter than the minimum and scored
\* below the threshold is rejected with a message naming the length
\* shortfall and the strength shortfall.
C23_ShortWeakKeyNamesBoth ==
    (/\ secret_key_check.checked
     /\ schema_environ.secret_key.length > 0
     /\ schema_environ.secret_key.length < 50
     /\ schema_environ.secret_key.score < 3) =>
        /\ secret_key_check.raised
        /\ {"length", "strength"} \subseteq secret_key_check.names

\* C28: ENV_STATE absent resolves to development, "development" and
\* "production" resolve to themselves, and any other present value raises
\* and resolves to no state at all.
C28_EnvStateResolution ==
    env_state_check.loaded =>
        LET raw == schema_environ.env_state
        IN /\ ~raw.present =>
                ~env_state_check.raised /\ env_state_check.state = "development"
           /\ (raw.present /\ raw.value \in {"development", "production"}) =>
                ~env_state_check.raised /\ env_state_check.state = raw.value
           /\ (raw.present /\ raw.value \notin {"development", "production"}) =>
                env_state_check.raised /\ env_state_check.state \notin {"development", "production"}

C28_Witness ==
    /\ env_state_check.loaded
    /\ env_state_check.raised
    /\ schema_environ.env_state = [present |-> TRUE, value |-> "staging"]

\* ----------------------------------- properties: connections, gates, order
\* C24 (as claimed): a command that has ended, and a fan-out that moves on
\* to its next alias, holds no open connection.
C24_ConnectionsClosedAtExit ==
    (Done \/ pc = "w_begin") => conns = 0

\* C25: in production without --allow-in-production no statement that
\* creates a user with SUPERUSER is issued, by create-user or by setup,
\* whatever the other options.
C25_NoSuperuserInProductionWithoutOverride ==
    (IsProduction /\ ~inv.allow_in_production) =>
        \A i \in 1..Len(log) : log[i].ev # "CREATE SUPERUSER"

\* C25 witness: setup --superuser without --reset was refused in production
\* before any workflow started.
C25_Witness ==
    /\ Done
    /\ IsProduction
    /\ inv.cmd = "setup"
    /\ inv.superuser
    /\ ~inv.reset
    /\ ~inv.allow_in_production
    /\ log = <<[ev |-> "guard_block", arg |-> "create superuser", alias |-> "-"]>>
    /\ outcomes = <<>>
    /\ exit_code = 1

\* C26: in drop, reset, drop-user and create-user every DROP DATABASE and
\* DROP USER statement is preceded, in the workflow of its alias, by the
\* operator typing exactly the statement's target name, unless --force.
C26_DropOnlyAfterForceOrTypedName ==
    inv.cmd \in {"drop", "reset", "drop-user", "create-user"} =>
        \A i \in 1..Len(log) :
            log[i].ev \in {"DROP DATABASE", "DROP USER"} =>
                \/ inv.force
                \/ \E k \in 1..(i - 1) :
                      /\ log[k].ev = "typed"
                      /\ log[k].alias = log[i].alias
                      /\ log[k].arg = log[i].arg

\* C26 witness: create-user --drop without --force dropped the existing user
\* after its name was typed.
C26_Witness ==
    /\ inv.cmd = "create-user"
    /\ inv.drop
    /\ ~inv.force
    /\ \E i \in 1..Len(log), k \in 1..Len(log) :
          /\ k < i
          /\ log[k] = [ev |-> "typed", arg |-> "dev_user", alias |-> "default"]
          /\ log[i] = [ev |-> "DROP USER", arg |-> "dev_user", alias |-> "default"]
    /\ "dev_user" \notin roles

\* C27: db info and db verify issue no statement that creates, drops or
\* alters a database or a user, terminates sessions or migrates, and leave
\* the databases and users as they were, in every environment.
C27_InfoAndVerifyReadOnly ==
    inv.cmd \in {"info", "verify"} =>
        /\ server = before
        /\ \A i \in 1..Len(log) : log[i].ev \notin MutatingEvents \cup {"migrate"}
        /\ ~GuardBlocked

\* C27 witness: verify ran to its end in production on an existing database.
C27_Witness ==
    /\ Done
    /\ IsProduction
    /\ inv.cmd = "verify"
    /\ exit_code = 0
    /\ "backend_db" \in databases
    /\ Len(log) = 4
    /\ log[4].ev = "showmigrations"

\* The guard `what` allowed the command, and the workflow of the running
\* alias has shown its warning and has its confirmation (typed name, or
\* --force).
GuardedAndConfirmed(what, warning) ==
    /\ log # <<>>
    /\ log[1] = [ev |-> "guard_allow", arg |-> what, alias |-> "-"]
    /\ \E i \in 2..Len(log) :
          /\ log[i] = [ev |-> "warn", arg |-> warning, alias |-> cur]
          /\ \A j \in 1..(i - 1) : log[j].alias # cur
          /\ \/ inv.force /\ \A j \in 1..Len(log) : ~(log[j].ev = "typed" /\ log[j].alias = cur)
             \/ /\ ~inv.force
                /\ i < Len(log)
                /\ log[i + 1] = [ev |-> "typed", arg |-> CurName, alias |-> cur]

\* The statements of a drop step as they follow each other in the log: a
\* termination only after a SyntaxError, that only after a DROP DATABASE,
\* and a plain DROP DATABASE right after the termination.
FallbackOnlyAfterSyntaxError ==
    \A i \in 1..Len(log) :
        /\ log[i].ev = "SyntaxError" =>
              /\ i > 1 /\ log[i - 1].ev = "DROP DATABASE" /\ log[i - 1].alias = log[i].alias
              /\ i < Len(log) /\ log[i + 1].ev = "terminate_db_sessions"
        /\ log[i].ev = "terminate_db_sessions" =>
              /\ i > 1 /\ log[i - 1].ev = "SyntaxError" /\ log[i - 1].alias = log[i].alias
              /\ i < Len(log) /\ log[i + 1].ev = "DROP DATABASE"
                              /\ log[i + 1].alias = log[i].alias
        /\ log[i].ev = "DROP DATABASE" =>
              /\ i > 1
              /\ log[i - 1].alias = log[i].alias
              /\ log[i - 1].ev \in {"warn", "typed", "terminate_db_sessions"}

\* The workflow of one alias moved from one step to another.
Stepped(from, to) == pc = from /\ pc' = to /\ cur' = cur /\ outcomes' = outcomes

SameWorkflow == pc \in WorkflowPcs /\ pc' \in WorkflowPcs /\ outcomes' = outcomes /\ pc' # pc

\* C29: the drop workflow of an alias goes guard, warning, typed
\* confirmation (unless --force), connection, existence check, forced drop,
\* verification of absence, one step after the other; the sessions are
\* terminated and a plain DROP DATABASE issued exactly after the forced drop
\* was rejected as a SyntaxError; the connection is attempted only with the
\* guard passed and the confirmation given.
C29_DropStepsInOrder ==
    [][inv'.cmd = "drop" =>
         /\ SameWorkflow =>
               \/ Stepped("w_begin", "w_prompt")
               \/ Stepped("w_prompt", "w_connect")
               \/ Stepped("w_connect", "s_drop_db")
         /\ pc' \in {"w_connect", "s_drop_db"} =>
               GuardedAndConfirmed("drop database", "DROP DATABASE")'
         /\ conns' > 0 => pc' = "s_drop_db"
         /\ pc' = "s_drop_db" => conns' = 1 /\ db_exists' /\ CurName' \in databases'
         /\ FallbackOnlyAfterSyntaxError'
         /\ (Len(outcomes') > Len(outcomes) /\ LastOutcome'.result = "success") =>
               /\ pc = "s_drop_db"
               /\ LastOutcome'.alias = cur
               /\ \E i \in 1..Len(log') : log'[i].ev = "DROP DATABASE" /\ log'[i].alias = cur
               /\ CurName \notin databases']_vars

\* C29 witness: drop without --force on a server that rejects the forced
\* drop: typed name, forced drop, SyntaxError, termination, plain drop.
C29_Witness ==
    /\ Done
    /\ inv.cmd = "drop"
    /\ ~inv.force
    /\ ~inv.all_dbs
    /\ Len(log) = 7
    /\ log[3] = [ev |-> "typed", arg |-> "backend_db", alias |-> "default"]
    /\ log[4].ev = "DROP DATABASE"
    /\ log[5].ev = "SyntaxError"
    /\ log[6].ev = "terminate_db_sessions"
    /\ log[7].ev = "DROP DATABASE"
    /\ outcomes[1].result = "success"
    /\ "backend_db" \notin databases

\* C30: the reset workflow of an alias is guarded and confirmed as drop is,
\* drops the database exactly when the existence check finds it, then
\* creates it, and migrates only without --no-migrate and only after the
\* create succeeded; a nonzero migration result ends the alias's workflow
\* with typer.Exit(1) (exit code 1 for a single alias) and leaves the
\* database present.
C30_ResetStepsAndMigration ==
    [][inv'.cmd = "reset" =>
         /\ SameWorkflow =>
               \/ Stepped("w_begin", "w_prompt")
               \/ Stepped("w_prompt", "w_connect")
               \/ Stepped("w_connect", "s_drop_db") /\ CurName \in databases
               \/ Stepped("w_connect", "s_create_db") /\ CurName \notin databases
               \/ Stepped("s_drop_db", "s_create_db") /\ CurName \notin databases'
               \/ /\ Stepped("s_create_db", "s_migrate")
                  /\ ~inv.no_migrate
                  /\ CurName \notin databases
                  /\ CurName \in databases'
         /\ pc' \in {"w_connect", "s_drop_db", "s_create_db", "s_migrate"} =>
               GuardedAndConfirmed("reset database", "RESET DATABASE")'
         /\ FallbackOnlyAfterSyntaxError'
         /\ Len(outcomes') > Len(outcomes) =>
               /\ LastOutcome'.result = "success" =>
                     /\ CurName \in databases'
                     /\ \/ pc = "s_migrate"
                        \/ pc = "s_create_db" /\ inv.no_migrate
               /\ LastOutcome'.result = "migration_failed" =>
                     /\ pc = "s_migrate"
                     /\ LastOutcome'.left = "Exit1"
                     /\ CurName \in databases'
                     /\ ~inv.all_dbs => exit_code' = 1]_vars

\* C30 witness: reset of a present database whose migration returned
\* nonzero: dropped, created again, exit code 1, database present.
C30_Witness ==
    /\ Done
    /\ inv.cmd = "reset"
    /\ ~inv.all_dbs
    /\ HasEvent({"DROP DATABASE"}, "default")
    /\ HasEvent({"CREATE DATABASE"}, "default")
    /\ outcomes[1].result = "migration_failed"
    /\ "backend_db" \in databases
    /\ exit_code = 1

\* ------------------------------------------ properties: setup, create-user
\* Every event of the kinds evs1 logged for alias a comes before every event
\* of the kinds evs2 logged for it.
Precedes(evs1, evs2, a) ==
    \A i \in 1..Len(log), j \in 1..Len(log) :
        (/\ log[i].alias = a /\ log[i].ev \in evs1
         /\ log[j].alias = a /\ log[j].ev \in evs2) => i < j

CreateUserEvents == {"CREATE USER", "CREATE SUPERUSER"}

\* C31: in setup, drops happen only with --reset and the database's before
\* the user's; CREATE USER is reached only with the user absent and comes
\* before CREATE DATABASE, which is reached only with the database absent
\* and the user present; GRANT is reached only with both present; the
\* migration names the alias, comes after every statement of the alias, with
\* the connection released, and only without --no-migrate.
C31_SetupOrder ==
    inv.cmd = "setup" =>
        /\ \A a \in Range(DeclaredAliases) :
              /\ Precedes({"DROP DATABASE", "terminate_db_sessions"},
                          {"terminate_user_sessions", "DROP USER"}, a)
              /\ Precedes({"terminate_user_sessions"}, {"DROP USER"}, a)
              /\ Precedes(DropEvents, CreateUserEvents \cup {"CREATE DATABASE"}, a)
              /\ Precedes(CreateUserEvents, {"CREATE DATABASE"}, a)
              /\ Precedes(CreateUserEvents \cup {"CREATE DATABASE"}, {"GRANT"}, a)
              /\ Precedes(MutatingEvents, {"migrate"}, a)
              /\ HasEvent(DropEvents, a) => inv.reset
              /\ HasEvent({"migrate"}, a) => ~inv.no_migrate /\ HasEvent({"GRANT"}, a)
        /\ \A i \in 1..Len(log) : log[i].ev = "migrate" => log[i].arg = log[i].alias
        /\ pc = "s_create_user" => CurUser \notin roles
        /\ pc = "s_create_db" => CurName \notin databases /\ CurUser \in roles
        /\ pc = "s_grant" => CurName \in databases /\ CurUser \in roles
        /\ pc = "s_migrate" => conns = 0 /\ ~inv.no_migrate

\* C31 witness: setup --reset --alias db2 on an existing pair went through
\* every step, in this order, and migrated db2.
C31_Witness ==
    /\ Done
    /\ inv.cmd = "setup"
    /\ inv.reset
    /\ inv.force
    /\ ~inv.all_dbs
    /\ Len(log) = 7
    /\ [i \in 1..7 |-> log[i].ev] =
          <<"DROP DATABASE", "terminate_user_sessions", "DROP USER", "CREATE USER",
            "CREATE DATABASE", "GRANT", "migrate">>
    /\ log[7] = [ev |-> "migrate", arg |-> "db2", alias |-> "db2"]
    /\ outcomes[1].result = "success"

\* C32: in create-user, a DROP USER is issued only with --drop, right after
\* the termination of the user's sessions, which follows the drop
\* sub-step's guard, its warning and (unless --force) the typed user name;
\* CREATE USER comes only after the drop; without --drop an existing user
\* ends the workflow with "already exists", typer.Exit(1), and no statement.
C32_CreateUserDropOrder ==
    inv.cmd = "create-user" =>
        /\ \A i \in 1..Len(log) :
              log[i].ev = "terminate_user_sessions" =>
                 LET g == IF inv.force THEN i - 2 ELSE i - 3
                 IN /\ inv.drop
                    /\ g >= 1
                    /\ log[g] = [ev |-> "guard_allow", arg |-> "drop user",
                                 alias |-> log[i].alias]
                    /\ log[g + 1] = [ev |-> "warn", arg |-> "DROP USER",
                                     alias |-> log[i].alias]
                    /\ ~inv.force => log[g + 2] = [ev |-> "typed", arg |-> log[i].arg,
                                                   alias |-> log[i].alias]
        /\ \A i \in 1..Len(log) :
              log[i].ev = "DROP USER" =>
                 /\ i > 1
                 /\ log[i - 1] = [ev |-> "terminate_user_sessions", arg |-> log[i].arg,
                                  alias |-> log[i].alias]
        /\ \A a \in Range(DeclaredAliases) : Precedes({"DROP USER"}, CreateUserEvents, a)
        /\ pc = "s_create_user" => CurUser \notin roles
        /\ \A i \in 1..Len(outcomes) :
              outcomes[i].result = "already_exists" =>
                 /\ ~inv.drop
                 /\ EnvDbUser[outcomes[i].alias] \in roles
                 /\ ~HasEvent(MutatingEvents, outcomes[i].alias)
                 /\ outcomes[i].left = "Exit1"

\* C32 witness: create-user --drop without --force on an existing user:
\* guard, warning, typed name, termination, DROP USER, CREATE USER.
C32_Witness ==
    /\ Done
    /\ inv.cmd = "create-user"
    /\ inv.drop
    /\ ~inv.force
    /\ ~inv.all_dbs
    /\ [i \in 1..Len(log) |-> log[i].ev] =
          <<"guard_allow", "warn", "typed", "terminate_user_sessions", "DROP USER",
            "CREATE USER">>
    /\ outcomes[1].result = "success"

\* --------------------------------------- properties: interrupts, sequencing
WorkflowCommands == {"create", "drop", "reset", "create-user", "drop-user", "setup"}

\* C33 (as claimed): a Ctrl-C inside a single-alias workflow ends that
\* workflow with an outcome (what leaves the workflow and what is printed)
\* that differs from the outcome of an unexpected error of the same command
\* and is the same for every command, and changes nothing on the server.
C33_InterruptDistinctAndUniform ==
    [][(/\ inv.cmd \in WorkflowCommands
        /\ Len(outcomes') > Len(outcomes)
        /\ LastOutcome'.result = "interrupted") =>
          /\ server' = server
          /\ <<LastOutcome'.left, LastOutcome'.message>> #
                <<Handler(inv.cmd, "Error"), HandlerMessage(inv.cmd, "Error")>>
          /\ \A c \in WorkflowCommands :
                /\ LastOutcome'.left = Handler(c, "KeyboardInterrupt")
                /\ LastOutcome'.message = HandlerMessage(c, "KeyboardInterrupt")]_vars

\* C34: at every point of every invocation at most one connection is open;
\* the workflow of an alias begins, and a probe of verify connects, with no
\* connection open; the migration of an alias runs with that alias's
\* connection released; in a fan-out the aliases done, the running one and
\* the pending ones are the alias list in order, so no alias starts before
\* the previous one has ended.
C34_StrictlySequential ==
    /\ conns \in {0, 1}
    /\ pc \in {"w_begin", "w_prompt", "w_connect", "v_show", "v_test_connect",
               "v_tables_connect", "v_migrations", "s_migrate"} => conns = 0
    /\ (inv.all_dbs /\ pc \in WorkflowPcs) =>
          /\ Attempted \o <<cur>> \o pending = GetAllDbAliases
          /\ \A i \in 1..Len(log) : log[i].alias \in Range(Attempted) \cup {cur, "-"}

\* C34 witness: in reset --all the second alias is migrating, after the
\* first alias's workflow has ended, with no connection open.
C34_Witness ==
    /\ pc = "s_migrate"
    /\ inv.cmd = "reset"
    /\ inv.all_dbs
    /\ Len(outcomes) = 1
    /\ cur = "db2"
    /\ conns = 0

\* ------------------------------------------------- properties: setup frame
\* C35 (as claimed): when setup without --reset fails on an existing
\* database, the alias's user and database exist exactly as they did before
\* the invocation.
C35_SetupExistsFailureChangesNothing ==
    \A i \in 1..Len(outcomes) :
        (inv.cmd = "setup" /\ ~inv.reset /\ outcomes[i].result = "already_exists") =>
            /\ EnvDbName[outcomes[i].alias] \in databases
                  <=> EnvDbName[outcomes[i].alias] \in before[1]
            /\ EnvDbUser[outcomes[i].alias] \in roles
                  <=> EnvDbUser[outcomes[i].alias] \in before[2]

\* C36 (as claimed): in every command, setup included, every DROP DATABASE
\* and DROP USER statement is preceded, in the workflow of its alias, by the
\* operator typing exactly the statement's target name, unless --force.
C36_EveryDropAfterForceOrTypedName ==
    \A i \in 1..Len(log) :
        log[i].ev \in {"DROP DATABASE", "DROP USER"} =>
            \/ inv.force
            \/ \E k \in 1..(i - 1) :
                  /\ log[k].ev = "typed"
                  /\ log[k].alias = log[i].alias
                  /\ log[k].arg = log[i].arg

\* C37 (as claimed): the migration that reset or setup runs for an alias
\* migrates that alias's database.
C37_MigrationScopedToAlias ==
    \A i \in 1..Len(log) : log[i].ev = "migrate" => log[i].arg = log[i].alias

\* ------------------------------------ properties: devtools and the reload
\* C38 (as claimed): once reload_registry() has run, every call of
\* is_production and get_all_db_aliases evaluates the registry that
\* registry.config_registry now names, and returns the environment state and
\* the alias list resolved from the environment as it was at that reload.
C38_GuardAndLookupFollowReload ==
    [][(reloads > 0 /\ devtools_call' # devtools_call) =>
          /\ devtools_call'.id = config_registry
          /\ devtools_call'.op = "is_production" =>
                devtools_call'.production = (env_at_reload.state = "production")
          /\ devtools_call'.op = "get_all_db_aliases" =>
                devtools_call'.aliases =
                   Keys(LoadAllDatabases(DeclaredAliases, env_at_reload.db_valid).configs)
      ]_settings_vars

\* ------------------------------------------- properties: alias prefixes
\* C39 (as claimed): no two keys of the loaded map were built from the same
\* environment-variable prefix, and the configuration stored under a key
\* carries that key as its alias.
C39_DistinctAliasesDistinctPrefixes ==
    /\ \A i, j \in 1..Len(alias_configs) :
          i # j => alias_configs[i].config.env_prefix # alias_configs[j].config.env_prefix
    /\ \A i \in 1..Len(alias_configs) : alias_configs[i].config.alias = alias_configs[i].key

====
